---- MODULE Spec2Model ----
(***************************************************************************)
(* Reconciliation scripts of convenios_2:                                  *)
(*   scripts/credcommerce/comb_trier_credcom_all.py  (TRIER x CREDCOM)     *)
(*   scripts/minerva/comb_trier_minerva_sg.py        (TRIER x MINERVA)     *)
(* Both read two ledger sheets, build the conference rows and rewrite an   *)
(* output sheet.  Text cells are sequences of one-character strings,       *)
(* amounts are IEEE-754 doubles (sign, odd binary mantissa, exponent).     *)
(***************************************************************************)
EXTENDS Integers, Sequences, FiniteSets, TLC

(***************************************************************************)
(* Generic helpers.                                                        *)
(***************************************************************************)
\* Python's None (and pandas' NaN/NA) is the empty option, a value v is <<v>>
None == <<>>

Some(v) == <<v>>

Val(o) == o[1]

Max(a, b) == IF a >= b THEN a ELSE b

Min(a, b) == IF a <= b THEN a ELSE b

Zeros(n) == [i \in 1..n |-> 0]

RECURSIVE Concat(_)
Concat(ss) == IF ss = <<>> THEN <<>> ELSE Head(ss) \o Concat(Tail(ss))

(***************************************************************************)
(* Python float: binary64 arithmetic, round-to-nearest-even.  A double is  *)
(* [s, m, e] with value (-1)^s * m * 2^e, m a bit sequence (most           *)
(* significant bit first) without leading or trailing zeros; zero is the   *)
(* empty mantissa.  Amounts stay far from overflow and subnormals.         *)
(***************************************************************************)
MantBits == 53

PadL(b, n) == [i \in 1..n |-> IF i <= n - Len(b) THEN 0 ELSE b[i - (n - Len(b))]]

StripLead(b) ==
    IF \A i \in 1..Len(b) : b[i] = 0 THEN <<>>
    ELSE LET f == CHOOSE i \in 1..Len(b) : b[i] = 1 /\ \A j \in 1..(i-1) : b[j] = 0
         IN  SubSeq(b, f, Len(b))

StripTrail(b) ==
    IF \A i \in 1..Len(b) : b[i] = 0 THEN <<>>
    ELSE LET l == CHOOSE i \in 1..Len(b) : b[i] = 1 /\ \A j \in (i+1)..Len(b) : b[j] = 0
         IN  SubSeq(b, 1, l)

BitsLess(a, b) ==
    LET n == Max(Len(a), Len(b))
        A == PadL(a, n)
        B == PadL(b, n)
    IN  \E i \in 1..n : A[i] < B[i] /\ \A j \in 1..(i-1) : A[j] = B[j]

RECURSIVE IntBits(_)
IntBits(n) == IF n = 0 THEN <<>> ELSE Append(IntBits(n \div 2), n % 2)

RECURSIVE BitsInt(_)
BitsInt(b) == IF b = <<>> THEN 0 ELSE 2 * BitsInt(SubSeq(b, 1, Len(b) - 1)) + b[Len(b)]

\* the k limbs of fifteen bits of a bit sequence, most significant first
Limbs(b, k) ==
    LET p == PadL(b, 15 * k)
    IN  [j \in 1..k |-> BitsInt(SubSeq(p, 15 * (j - 1) + 1, 15 * j))]

\* the bits of limbs, c[j] being the carry (or borrow) into limb j
LimbBits(l) == Concat([j \in 1..Len(l) |-> PadL(IntBits(l[j]), 15)])

\* additions and subtractions run limb by limb, which keeps the evaluation
\* shallow for long mantissas: A and B are the limbs of the operands
LimbSum(A, B) ==
    LET c[j \in 1..(Len(A) + 1)] ==
            IF j = Len(A) + 1 THEN 0 ELSE (A[j] + B[j] + c[j + 1]) \div 32768
    IN  [j \in 1..Len(A) |-> (A[j] + B[j] + c[j + 1]) % 32768]

LimbDiff(A, B) ==
    LET c[j \in 1..(Len(A) + 1)] ==
            IF j = Len(A) + 1 THEN 0
            ELSE IF A[j] - B[j] - c[j + 1] < 0 THEN 1 ELSE 0
    IN  [j \in 1..Len(A) |-> (A[j] - B[j] - c[j + 1] + 32768) % 32768]

LimbCount(a, b) == (Max(Len(a), Len(b)) \div 15) + 1

BitsAdd(a, b) ==
    StripLead(LimbBits(LimbSum(Limbs(a, LimbCount(a, b)), Limbs(b, LimbCount(a, b)))))

\* a - b for a >= b
BitsSub(a, b) ==
    StripLead(LimbBits(LimbDiff(Limbs(a, LimbCount(a, b)), Limbs(b, LimbCount(a, b)))))

FZero == [s |-> 0, m |-> <<>>, e |-> 0]

Canon(s, m, e) ==
    LET t == StripTrail(m)
    IN  IF t = <<>> THEN FZero ELSE [s |-> s, m |-> t, e |-> e + (Len(m) - Len(t))]

\* the double nearest to (-1)^s * m * 2^e, ties to even; m has no leading zero
RoundBits(s, m, e) ==
    IF Len(m) <= MantBits THEN Canon(s, m, e)
    ELSE LET keep   == SubSeq(m, 1, MantBits)
             sticky == \E i \in (MantBits + 2)..Len(m) : m[i] = 1
             up     == m[MantBits + 1] = 1 /\ (sticky \/ keep[MantBits] = 1)
         IN  Canon(s, IF up THEN BitsAdd(keep, <<1>>) ELSE keep, e + (Len(m) - MantBits))

Aligned(x, y) ==
    LET e0 == Min(x.e, y.e)
    IN  [X |-> x.m \o Zeros(x.e - e0), Y |-> y.m \o Zeros(y.e - e0), e |-> e0]

FNeg(x) == IF x.m = <<>> THEN x ELSE [x EXCEPT !.s = 1 - x.s]

FAbs(x) == [x EXCEPT !.s = 0]

FAdd(x, y) ==
    IF x.m = <<>> THEN y
    ELSE IF y.m = <<>> THEN x
    ELSE LET al == Aligned(x, y)
         IN  IF x.s = y.s THEN RoundBits(x.s, BitsAdd(al.X, al.Y), al.e)
             ELSE IF BitsLess(al.X, al.Y) THEN RoundBits(y.s, BitsSub(al.Y, al.X), al.e)
             ELSE IF BitsLess(al.Y, al.X) THEN RoundBits(x.s, BitsSub(al.X, al.Y), al.e)
             ELSE FZero

FSub(x, y) == FAdd(x, FNeg(y))

\* x <= y
FLeq(x, y) ==
    LET al == Aligned(x, y)
    IN  IF x.m = <<>> THEN y.m = <<>> \/ y.s = 0
        ELSE IF y.m = <<>> THEN x.s = 1
        ELSE IF x.s # y.s THEN x.s = 1
        ELSE IF x.s = 0 THEN ~ BitsLess(al.Y, al.X)
        ELSE ~ BitsLess(al.X, al.Y)

FLess(x, y) == FLeq(x, y) /\ x # y

\* sixteen quotient bits of r / d per step, r < d < 2^14, most significant
\* first, and the remainder left after k steps
RECURSIVE FracDiv(_, _, _)
FracDiv(r, d, k) ==
    IF k = 0 THEN [q |-> <<>>, r |-> r]
    ELSE LET t    == r * 65536
             rest == FracDiv(t % d, d, k - 1)
         IN  [q |-> PadL(IntBits(t \div d), 16) \o rest.q, r |-> rest.r]

\* float of the decimal n / d for naturals n, d (d < 2^14): the double nearest
\* to n / d.  The quotient is developed to 64 fractional bits, all further
\* bits are summarised in one sticky bit.
FromRatio(n, d) ==
    LET fr == FracDiv(n % d, d, 4)
        q  == IntBits(n \div d) \o fr.q
    IN  IF n = 0 THEN FZero
        ELSE RoundBits(0, StripLead(q) \o <<IF fr.r = 0 THEN 0 ELSE 1>>, -65)

\* the integer nearest to the binary number ip.frac, ties to even
RoundHalfEven(ip, frac) ==
    BitsInt(ip) + (IF /\ frac # <<>> /\ frac[1] = 1
                      /\ ((\E i \in 2..Len(frac) : frac[i] = 1) \/ (ip # <<>> /\ ip[Len(ip)] = 1))
                   THEN 1 ELSE 0)

\* the integer nearest to p / 2^f, p of more than f bits
RoundShift(p, f) == RoundHalfEven(SubSeq(p, 1, Len(p) - f), SubSeq(p, Len(p) - f + 1, Len(p)))

\* the integer nearest to m * 2^e
RoundScaled(m, e) ==
    IF e >= 0 THEN BitsInt(m \o Zeros(e))
    ELSE RoundShift(PadL(m, Max(Len(m), 1 - e)), -e)

\* round(x * 100) to the nearest integer, ties to even, for the magnitude of
\* x: the cents printed by the format specification ",.2f"
Cents(x) ==
    IF x.m = <<>> THEN 0
    ELSE RoundScaled(BitsAdd(BitsAdd(x.m \o Zeros(6), x.m \o Zeros(5)), x.m \o Zeros(2)), x.e)

(***************************************************************************)
(* Text.  A string is a sequence of characters, a character is a string of *)
(* length one ("EMDASH", "WARN", "VS16", "CHECK", "CROSS", "A~" and "a~" *)
(* stand for U+2014, U+26A0, U+FE0F, U+2705, U+274C, U+00C3 and U+00E3).  Ord gives the code points Python compares. *)
(***************************************************************************)
DigitSeq == <<"0", "1", "2", "3", "4", "5", "6", "7", "8", "9">>

UpperSeq == <<"A", "B", "C", "D", "E", "F", "G", "H", "I", "J", "K", "L", "M",
              "N", "O", "P", "Q", "R", "S", "T", "U", "V", "W", "X", "Y", "Z">>

IsDigit(c) == \E i \in 1..10 : DigitSeq[i] = c

IsUpper(c) == \E i \in 1..26 : UpperSeq[i] = c

IsSpace(c) == c = " "

DigitVal(c) == (CHOOSE i \in 1..10 : DigitSeq[i] = c) - 1

Ord(c) ==
    IF IsDigit(c) THEN 48 + DigitVal(c)
    ELSE IF IsUpper(c) THEN 64 + (CHOOSE i \in 1..26 : UpperSeq[i] = c)
    ELSE CASE c = " "      -> 32
           [] c = "$"      -> 36
           [] c = ","      -> 44
           [] c = "-"      -> 45
           [] c = "."      -> 46
           [] c = "/"      -> 47
           [] c = "_"      -> 95
           [] c = "A~" -> 195
           [] c = "EMDASH" -> 8212
           [] c = "WARN"   -> 9888
           [] c = "CHECK"  -> 9989
           [] c = "VS16"   -> 65039

\* Python's str < str
StrLess(a, b) ==
    \/ \E i \in 1..Min(Len(a), Len(b)) : /\ Ord(a[i]) < Ord(b[i])
                                         /\ \A j \in 1..(i-1) : a[j] = b[j]
    \/ Len(a) < Len(b) /\ \A j \in 1..Len(a) : a[j] = b[j]

\* str.strip()
Strip(s) ==
    IF \A i \in 1..Len(s) : IsSpace(s[i]) THEN <<>>
    ELSE LET f == CHOOSE i \in 1..Len(s) : ~ IsSpace(s[i]) /\ \A j \in 1..(i-1) : IsSpace(s[j])
             l == CHOOSE i \in 1..Len(s) : ~ IsSpace(s[i]) /\ \A j \in (i+1)..Len(s) : IsSpace(s[j])
         IN  SubSeq(s, f, l)

\* s.replace(c, "") and s.replace(c, d) for one character c
RemoveChar(s, c) == SelectSeq(s, LAMBDA x : x # c)

MapChar(s, c, d) == [i \in 1..Len(s) |-> IF s[i] = c THEN d ELSE s[i]]

\* s.replace("R$", "")
RECURSIVE RemoveRS(_)
RemoveRS(s) ==
    IF Len(s) < 2 THEN s
    ELSE IF s[1] = "R" /\ s[2] = "$" THEN RemoveRS(SubSeq(s, 3, Len(s)))
    ELSE <<s[1]>> \o RemoveRS(Tail(s))

AllDigits(s) == \A i \in 1..Len(s) : IsDigit(s[i])

\* int(s) for a digit string
RECURSIVE StrNat(_)
StrNat(s) == IF s = <<>> THEN 0 ELSE 10 * StrNat(SubSeq(s, 1, Len(s) - 1)) + DigitVal(s[Len(s)])

\* str(n) for a natural number
RECURSIVE NatStr(_)
NatStr(n) == IF n < 10 THEN <<DigitSeq[n + 1]>> ELSE Append(NatStr(n \div 10), DigitSeq[(n % 10) + 1])

\* "%02d" and wider: str(n).zfill(w)
ZFill(s, w) == [i \in 1..(Max(w, Len(s)) - Len(s)) |-> "0"] \o s

RECURSIVE Pow10(_)
Pow10(k) == IF k = 0 THEN 1 ELSE 10 * Pow10(k - 1)

\* float(s) for the texts the scripts hand to it (digits, one optional point,
\* an optional leading minus): None stands for ValueError
PyFloatOf(neg, ip, fp) ==
    IF ~ AllDigits(ip \o fp) \/ ip \o fp = <<>> THEN None
    ELSE IF neg THEN Some(FNeg(FromRatio(StrNat(ip \o fp), Pow10(Len(fp)))))
    ELSE Some(FromRatio(StrNat(ip \o fp), Pow10(Len(fp))))

PyFloatAt(neg, u, dots) ==
    IF Cardinality(dots) > 1 THEN None
    ELSE IF dots = {} THEN PyFloatOf(neg, u, <<>>)
    ELSE PyFloatOf(neg, SubSeq(u, 1, (CHOOSE i \in dots : TRUE) - 1),
                   SubSeq(u, (CHOOSE i \in dots : TRUE) + 1, Len(u)))

PyFloatUnsigned(neg, u) == PyFloatAt(neg, u, {i \in 1..Len(u) : u[i] = "."})

PyFloat(s) == IF s # <<>> /\ s[1] = "-" THEN PyFloatUnsigned(TRUE, Tail(s)) ELSE PyFloatUnsigned(FALSE, s)

(***************************************************************************)
(* credcommerce/comb_trier_credcom_all.py: helpers.                        *)
(***************************************************************************)
\* parse_brl_money, text cells
parse_brl_money(x) ==
    LET s == Strip(x)
    IN  IF s = <<>> \/ s = <<"-">> THEN None
        ELSE PyFloat(MapChar(RemoveChar(RemoveChar(RemoveRS(s), " "), "."), ",", "."))

\* the digits of n grouped in threes by sep: the "," of the format specification
RECURSIVE Grouped(_, _)
Grouped(d, sep) ==
    IF Len(d) <= 3 THEN d
    ELSE Grouped(SubSeq(d, 1, Len(d) - 3), sep) \o <<sep>> \o SubSeq(d, Len(d) - 2, Len(d))

\* "{:,.2f}" of c cents with the separators swapped, "R$ " in front
FormatCents(neg, c) ==
    <<"R", "$", " ">> \o (IF neg THEN <<"-">> ELSE <<>>)
        \o Grouped(NatStr(c \div 100), ".") \o <<",">> \o ZFill(NatStr(c % 100), 2)

\* a formatter that leaves the separators of "{:,.2f}" as they are
format_brl_unswapped(v) ==
    IF v = None THEN <<"-">>
    ELSE <<"R", "$", " ">> \o Grouped(NatStr(Cents(Val(v)) \div 100), ",")
            \o <<".">> \o ZFill(NatStr(Cents(Val(v)) % 100), 2)

\* format_brl: f"{v:,.2f}" with the separators swapped, "R$ " in front
format_brl(v) ==
    IF v = None THEN <<"-">> ELSE FormatCents(Val(v).s = 1, Cents(Val(v)))

IsAlnum(c) == IsDigit(c) \/ IsUpper(c)

\* name_tokens: the maximal runs of [A-Z0-9] of length >= 2 (every other
\* character becomes a space; the ledgers' names are upper-case and unaccented,
\* where strip_accents and upper change nothing)
name_tokens(name) ==
    {SubSeq(name, i, j) : <<i, j>> \in
        {p \in (1..Len(name)) \X (1..Len(name)) :
            /\ p[1] < p[2]
            /\ \A k \in p[1]..p[2] : IsAlnum(name[k])
            /\ (p[1] = 1 \/ ~ IsAlnum(name[p[1] - 1]))
            /\ (p[2] = Len(name) \/ ~ IsAlnum(name[p[2] + 1]))}}

\* token_match_score
token_match_score(tokens_a, tokens_b) ==
    IF tokens_a = {} \/ tokens_b = {} THEN 0 ELSE Cardinality(tokens_a \cap tokens_b)

LeapYear(y) == (y % 4 = 0 /\ y % 100 # 0) \/ y % 400 = 0

DaysIn(m, y) ==
    IF m = 2 THEN (IF LeapYear(y) THEN 29 ELSE 28)
    ELSE IF m \in {4, 6, 9, 11} THEN 30 ELSE 31

\* parse_date_br: a day-first d/m/yyyy text gives the date, anything else None
\* (dateutil reads further layouts, which the ledgers never use)
parse_date_br(x) ==
    LET s  == Strip(x)
        sl == {i \in 1..Len(s) : s[i] = "/"}
        a  == CHOOSE i \in sl : \A j \in sl : i <= j
        b  == CHOOSE i \in sl : \A j \in sl : i >= j
        dd == SubSeq(s, 1, a - 1)
        mm == SubSeq(s, a + 1, b - 1)
        yy == SubSeq(s, b + 1, Len(s))
    IN  IF Cardinality(sl) # 2 THEN None
        ELSE IF ~ (Len(dd) \in 1..2 /\ Len(mm) \in 1..2 /\ Len(yy) = 4) THEN None
        ELSE IF ~ AllDigits(dd \o mm \o yy) THEN None
        ELSE IF ~ (StrNat(mm) \in 1..12 /\ StrNat(yy) >= 1) THEN None
        ELSE IF ~ (StrNat(dd) \in 1..DaysIn(StrNat(mm), StrNat(yy))) THEN None
        ELSE Some([y |-> StrNat(yy), m |-> StrNat(mm), d |-> StrNat(dd)])

\* dt.strftime("%d/%m/%Y")
strftime(dt) ==
    ZFill(NatStr(dt.d), 2) \o <<"/">> \o ZFill(NatStr(dt.m), 2) \o <<"/">> \o ZFill(NatStr(dt.y), 4)

\* the order of dates
DateOrd(dt) == dt.y * 10000 + dt.m * 100 + dt.d

\* the end of the digit run that starts at i, and the first index >= k that
\* holds no space (Len(s) + 1 when there is none)
RunEnd(s, i) == CHOOSE j \in i..Len(s) :
                    /\ \A k \in i..j : IsDigit(s[k])
                    /\ (j = Len(s) \/ ~ IsDigit(s[j + 1]))

SkipSpaces(s, k) == CHOOSE j \in k..(Len(s) + 1) :
                        /\ \A i \in k..(j - 1) : IsSpace(s[i])
                        /\ (j = Len(s) + 1 \/ ~ IsSpace(s[j]))

RunStarts(s) == {i \in 1..Len(s) : IsDigit(s[i]) /\ (i = 1 \/ ~ IsDigit(s[i - 1]))}

PARCELA == <<"P", "A", "R", "C", "E", "L", "A", " ">>

NoParcela == [num |-> None, txt |-> None]

\* parse_parcela_trier: re.search(r"(\d+)\s*/\s*(\d+)") or the first number
parse_parcela_trier(x) ==
    LET s     == Strip(x)
        slash(i) == SkipSpaces(s, RunEnd(s, i) + 1)
        den(i)   == SkipSpaces(s, slash(i) + 1)
        fracs == {i \in RunStarts(s) : /\ slash(i) <= Len(s) /\ s[slash(i)] = "/"
                                       /\ den(i) <= Len(s) /\ IsDigit(s[den(i)])}
        f     == CHOOSE i \in fracs : \A j \in fracs : i <= j
        g     == CHOOSE i \in RunStarts(s) : \A j \in RunStarts(s) : i <= j
        n(i)  == StrNat(SubSeq(s, i, RunEnd(s, i)))
    IN  IF s = <<>> \/ s = <<"-">> THEN NoParcela
        ELSE IF fracs # {}
            THEN [num |-> Some(n(f)),
                  txt |-> Some(PARCELA \o NatStr(n(f)) \o <<"/">> \o NatStr(n(den(f))))]
        ELSE IF RunStarts(s) # {}
            THEN [num |-> Some(n(g)), txt |-> Some(PARCELA \o NatStr(n(g)))]
        ELSE NoParcela

\* parse_parcela_credcom: the first number
parse_parcela_credcom(x) ==
    LET s == Strip(x)
        g == CHOOSE i \in RunStarts(s) : \A j \in RunStarts(s) : i <= j
        n == StrNat(SubSeq(s, g, RunEnd(s, g)))
    IN  IF s = <<>> \/ s = <<"-">> \/ RunStarts(s) = {} THEN NoParcela
        ELSE [num |-> Some(n), txt |-> Some(PARCELA \o NatStr(n))]

\* a conversion that reads 0 in a cell that holds no number
to_numeric_zero(x) ==
    IF Strip(x) # <<>> /\ AllDigits(Strip(x)) THEN Some(StrNat(Strip(x))) ELSE Some(0)

\* pd.to_numeric(errors="coerce").astype("Int64") of a text cell: the integer
\* a digit string denotes, NA for any other text of the ledgers
to_numeric(x) ==
    LET s == Strip(x)
    IN  IF s # <<>> /\ AllDigits(s) THEN Some(StrNat(s)) ELSE None

(***************************************************************************)
(* Sheets and data frames.  A ledger sheet is its header (the set of       *)
(* normalized column names) and its data rows; every cell is text.         *)
(***************************************************************************)
\* pd.DataFrame(ws.get_all_records()) after normalize_df_columns: a sheet
\* without data rows gives a frame without columns
DataFrame(ws) == [cols |-> IF ws.rows = <<>> THEN {} ELSE ws.header, rows |-> ws.rows]

\* list.sort(key=...) and sorted(key=...): the key of each row is taken once,
\* rows with equal keys keep their order; Less compares two keys
StableSort(rows, Key(_), Less(_, _)) ==
    LET keys == [n \in 1..Len(rows) |-> Key(rows[n])]
        order[n \in 0..Len(rows)] ==
            IF n = 0 THEN <<>>
            ELSE LET prev == order[n - 1]
                     p    == Cardinality({i \in 1..Len(prev) : ~ Less(keys[n], keys[prev[i]])})
                 IN  SubSeq(prev, 1, p) \o <<n>> \o SubSeq(prev, p + 1, Len(prev))
    IN  [n \in 1..Len(rows) |-> rows[order[Len(rows)][n]]]

DASH == <<"-">>

SEP == <<" ", "EMDASH", " ">>

ST_OK == <<"CHECK", " ", "O", "K">>

ST_DIVERGENTE == <<"WARN", "VS16", " ", "V", "A", "L", "O", "R", " ",
                   "D", "I", "V", "E", "R", "G", "E", "N", "T", "E">>

ST_SOMENTE_TRIER == <<"WARN", "VS16", " ", "S", "O", "M", "E", "N", "T", "E", " ",
                      "T", "R", "I", "E", "R">>

ST_SOMENTE_CREDCOM == <<"WARN", "VS16", " ", "S", "O", "M", "E", "N", "T", "E", " ",
                        "C", "R", "E", "D", "C", "O", "M">>

ST_SOMENTE_MINERVA == <<"WARN", "VS16", " ", "S", "O", "M", "E", "N", "T", "E", " ",
                        "M", "I", "N", "E", "R", "V", "A">>

\* VALUE_TOL = 0.05
VALUE_TOL == FromRatio(5, 100)

\* a tolerance that leaves the boundary out
WithinTolStrict(a, b) == FLess(FAbs(FSub(a, b)), VALUE_TOL)

\* abs(float(a) - float(b)) <= VALUE_TOL
WithinTol(a, b) == FLeq(FAbs(FSub(a, b)), VALUE_TOL)

(***************************************************************************)
(* The ledgers the runs are checked on.                                    *)
(***************************************************************************)
ANA_LIMA == <<"A", "N", "A", " ", "L", "I", "M", "A">>

ANA_LIMA_SA == ANA_LIMA \o <<" ", "S", "A">>

LIMA_ANA_SA == <<"L", "I", "M", "A", " ", "A", "N", "A", " ", "S", "A">>

ANA == <<"A", "N", "A">>

BIA == <<"B", "I", "A">>

JAN05 == <<"0", "5", "/", "0", "1", "/", "2", "0", "2", "6">>

CPF_ANA == <<"1", "2", "3", "4", "5", "6", "7", "8", "9", "0", "1">>

CPF_ANA_FMT == <<"1", "2", "3", ".", "4", "5", "6", ".", "7", "8", "9", "-", "0", "1">>

\* rows of the sheet dados_trier
CT1 == [filial |-> <<"1">>, cliente |-> ANA_LIMA_SA, data |-> JAN05,
        parcela |-> <<"1", "/", "3">>, valor |-> <<"1", ",", "0", "5">>]

CT2 == [filial |-> <<"1">>, cliente |-> ANA_LIMA, data |-> JAN05,
        parcela |-> <<>>, valor |-> <<"0", ",", "0", "5">>]

CT3 == [filial |-> <<"2">>, cliente |-> ANA, data |-> <<"5", "/", "1", "/", "2", "0", "2", "6">>,
        parcela |-> <<"2">>, valor |-> <<"R", "$", " ", "1", ".", "0", "0", "0", ",", "1", "0">>]

CT4 == [filial |-> <<"1">>, cliente |-> ANA_LIMA,
        data |-> <<"3", "1", "/", "0", "2", "/", "2", "0", "2", "6">>,
        parcela |-> <<>>, valor |-> <<"1", ",", "0", "0">>]

CredTrierPool == {CT1, CT2, CT3, CT4}

\* rows of the sheet dados_cred_commerce
CC1 == [filial |-> <<"1">>, cliente |-> ANA_LIMA, data |-> JAN05,
        parcela |-> <<"1">>, valor |-> <<"1", ",", "0", "0">>]

CC2 == [filial |-> <<"1">>, cliente |-> LIMA_ANA_SA, data |-> JAN05,
        parcela |-> <<>>, valor |-> <<"0", ",", "0", "0">>]

CC3 == [filial |-> <<"2">>, cliente |-> ANA_LIMA, data |-> JAN05,
        parcela |-> <<"2">>, valor |-> <<"1", "0", "0", "0", ",", "1", "0">>]

CC4 == [filial |-> <<"1">>, cliente |-> ANA_LIMA, data |-> JAN05,
        parcela |-> <<"3">>, valor |-> <<"-">>]

\* a row whose branch cell holds no number
CC5 == [filial |-> <<"-">>, cliente |-> ANA_LIMA, data |-> JAN05,
        parcela |-> <<>>, valor |-> <<"1", ",", "0", "0">>]

CredcomPool == {CC1, CC2, CC3, CC4, CC5}

\* rows of the sheet dados_trier_sg
MT1 == [filial |-> <<"1">>, cliente |-> ANA_LIMA, cpf |-> CPF_ANA_FMT, valor |-> <<"1", ",", "0", "0">>]

MT2 == [filial |-> <<"2">>, cliente |-> ANA, cpf |-> CPF_ANA, valor |-> <<"0", ",", "0", "5">>]

MT3 == [filial |-> <<>>, cliente |-> BIA, cpf |-> <<"7">>, valor |-> <<"0", ",", "0", "5">>]

MT4 == [filial |-> <<"1">>, cliente |-> BIA, cpf |-> CPF_ANA \o <<"2">>, valor |-> <<"1", ",", "0", "0">>]

MinTrierPool == {MT1, MT2, MT3, MT4}

\* rows of the sheet dados_minerva_sg
MM1 == [cliente |-> ANA_LIMA_SA, cpf |-> CPF_ANA, valor |-> <<"1", ",", "0", "5">>]

MM2 == [cliente |-> ANA, cpf |-> CPF_ANA_FMT, valor |-> <<"0", ",", "0", "5">>]

MM3 == [cliente |-> BIA, cpf |-> <<"0", "0", "0", "0", "0", "0", "0", "0", "0", "0", "7">>,
        valor |-> <<"0", ",", "1", "0">>]

MM4 == [cliente |-> BIA, cpf |-> <<"8">>, valor |-> <<"-">>]

MinervaPool == {MM1, MM2, MM3, MM4}

(***************************************************************************)
(* credcommerce: build_conferencia_rows.                                   *)
(***************************************************************************)
\* a build that asks for no column
NoRequired == {}

CredRequired == {"filial", "cliente", "data emissao", "parcela", "valor"}

\* the derived columns of one ledger row
CredCols(r, Parcela(_)) ==
    [filial  |-> to_numeric(r.filial),
     date    |-> parse_date_br(r.data),
     valor   |-> parse_brl_money(r.valor),
     tokens  |-> name_tokens(r.cliente),
     parcela |-> Parcela(r.parcela),
     cliente |-> r.cliente]

\* the derived columns of every row the ledgers are made of
TrierCols == [r \in CredTrierPool |-> CredCols(r, parse_parcela_trier)]

CredcomCols == [r \in CredcomPool |-> CredCols(r, parse_parcela_credcom)]

\* the frame with its derived columns; idx is the row's place in the frame
CredNorm(df, Cols) ==
    [i \in 1..Len(df.rows) |-> [idx |-> i] @@ Cols[df.rows[i]]]

\* dropna(subset=["filial", "Data_Emissao"])
CredDropNa(t) == SelectSeq(t, LAMBDA r : r.filial # None /\ r.date # None)

KeyOf(r) == [filial |-> Val(r.filial), date |-> Val(r.date)]

KeyBefore(k1, k2) ==
    \/ DateOrd(k1.date) < DateOrd(k2.date)
    \/ DateOrd(k1.date) = DateOrd(k2.date) /\ k1.filial < k2.filial

\* sorted(set(...) | set(...), key=(date, filial))
RECURSIVE SortedKeys(_)
SortedKeys(ks) ==
    IF ks = {} THEN <<>>
    ELSE LET k == CHOOSE x \in ks : \A y \in ks \ {x} : KeyBefore(x, y)
         IN  <<k>> \o SortedKeys(ks \ {k})

CredKeys(t, c) ==
    SortedKeys({KeyOf(t[i]) : i \in 1..Len(t)} \cup {KeyOf(c[j]) : j \in 1..Len(c)})

\* a grouping that keeps one row of each key
GroupFirst(t, k) ==
    LET g == SelectSeq(t, LAMBDA r : KeyOf(r) = k)
    IN  IF g = <<>> THEN g ELSE <<g[1]>>

Group(t, k) == SelectSeq(t, LAMBDA r : KeyOf(r) = k)

\* a candidate loop that takes the best free candidate whatever its instalment
RECURSIVE BestCandidateAnyParcela(_, _, _, _, _, _)
BestCandidateAnyParcela(ta, cg, used_c, j, best_j, best_score) ==
    IF j > Len(cg) THEN [j |-> best_j, score |-> best_score]
    ELSE IF j \in used_c THEN BestCandidateAnyParcela(ta, cg, used_c, j + 1, best_j, best_score)
    ELSE IF token_match_score(ta.tokens, cg[j].tokens) > best_score
        THEN BestCandidateAnyParcela(ta, cg, used_c, j + 1, j, token_match_score(ta.tokens, cg[j].tokens))
    ELSE BestCandidateAnyParcela(ta, cg, used_c, j + 1, best_j, best_score)

\* the candidate loop of one TRIER row: best_j (0 for None) and best_score
RECURSIVE BestCandidate(_, _, _, _, _, _)
BestCandidate(ta, cg, used_c, j, best_j, best_score) ==
    IF j > Len(cg) THEN [j |-> best_j, score |-> best_score]
    ELSE IF j \in used_c THEN BestCandidate(ta, cg, used_c, j + 1, best_j, best_score)
    ELSE IF /\ ta.parcela.num # None /\ cg[j].parcela.num # None
            /\ Val(ta.parcela.num) # Val(cg[j].parcela.num)
        THEN BestCandidate(ta, cg, used_c, j + 1, best_j, best_score)
    ELSE LET score == token_match_score(ta.tokens, cg[j].tokens)
         IN  IF score > best_score
             THEN BestCandidate(ta, cg, used_c, j + 1, j, score)
             ELSE BestCandidate(ta, cg, used_c, j + 1, best_j, best_score)

\* the client name shown in a row, with the instalment text when there is one
ShownName(r) ==
    IF r.parcela.txt # None /\ Val(r.parcela.txt) # <<>>
    THEN r.cliente \o SEP \o Val(r.parcela.txt)
    ELSE r.cliente

CredStatus(t_val, c_val) ==
    IF t_val # None /\ c_val # None /\ WithinTol(Val(t_val), Val(c_val))
    THEN ST_OK ELSE ST_DIVERGENTE

\* a row that leaves the cells of the missing side empty
CredRowBlank(k, ta, cb) ==
    [cells |-> <<NatStr(k.filial), strftime(k.date),
                 IF ta = None THEN <<>> ELSE ShownName(Val(ta)),
                 IF ta = None THEN <<>> ELSE format_brl(Val(ta).valor),
                 IF cb = None THEN <<>> ELSE ShownName(Val(cb)),
                 IF cb = None THEN <<>> ELSE format_brl(Val(cb).valor),
                 IF ta = None THEN ST_SOMENTE_CREDCOM
                 ELSE IF cb = None THEN ST_SOMENTE_TRIER
                 ELSE CredStatus(Val(ta).valor, Val(cb).valor)>>,
     ia |-> IF ta = None THEN 0 ELSE Val(ta).idx,
     ib |-> IF cb = None THEN 0 ELSE Val(cb).idx]

\* an output row: its seven cells, and the ledger rows it was made from
\* (ia, ib: places in df_trier and df_cred, 0 for none)
CredRow(k, ta, cb) ==
    [cells |-> <<NatStr(k.filial), strftime(k.date),
                 IF ta = None THEN DASH ELSE ShownName(Val(ta)),
                 IF ta = None THEN DASH ELSE format_brl(Val(ta).valor),
                 IF cb = None THEN DASH ELSE ShownName(Val(cb)),
                 IF cb = None THEN DASH ELSE format_brl(Val(cb).valor),
                 IF ta = None THEN ST_SOMENTE_CREDCOM
                 ELSE IF cb = None THEN ST_SOMENTE_TRIER
                 ELSE CredStatus(Val(ta).valor, Val(cb).valor)>>,
     ia |-> IF ta = None THEN 0 ELSE Val(ta).idx,
     ib |-> IF cb = None THEN 0 ELSE Val(cb).idx]

\* an acceptance test content with one common token
AcceptsOne(best) == best.j # 0 /\ best.score >= 1

\* the acceptance test of the best candidate
Accepts(best) == best.j # 0 /\ best.score >= 2

\* a loop that serves the TRIER rows of the group from the last to the first
RECURSIVE MatchTrierLastFirst(_, _, _, _, _, _)
MatchTrierLastFirst(k, tg, cg, i, used_c, out) ==
    IF i > Len(tg) THEN [used |-> used_c, out |-> out]
    ELSE LET ta   == tg[Len(tg) + 1 - i]
             best == BestCandidate(ta, cg, used_c, 1, 0, 0)
         IN  IF Accepts(best)
             THEN MatchTrierLastFirst(k, tg, cg, i + 1, used_c \cup {best.j},
                                      Append(out, CredRow(k, Some(ta), Some(cg[best.j]))))
             ELSE MatchTrierLastFirst(k, tg, cg, i + 1, used_c,
                                      Append(out, CredRow(k, Some(ta), None)))

\* the loop over the TRIER rows of one (filial, date) group; MatchStep is the
\* body of the loop for row i, whose best candidate is best
RECURSIVE MatchTrier(_, _, _, _, _, _)
RECURSIVE MatchStep(_, _, _, _, _, _, _)
MatchStep(k, tg, cg, i, used_c, out, best) ==
    IF Accepts(best)
    THEN MatchTrier(k, tg, cg, i + 1, used_c \cup {best.j},
                    Append(out, CredRow(k, Some(tg[i]), Some(cg[best.j]))))
    ELSE MatchTrier(k, tg, cg, i + 1, used_c, Append(out, CredRow(k, Some(tg[i]), None)))

MatchTrier(k, tg, cg, i, used_c, out) ==
    IF i > Len(tg) THEN [used |-> used_c, out |-> out]
    ELSE MatchStep(k, tg, cg, i, used_c, out, BestCandidate(tg[i], cg, used_c, 1, 0, 0))

\* a build that forgets the CREDCOM rows left without a partner
NoLeftoverCred(k, cg, used_c) == <<>>

\* the CREDCOM rows of the group left without a partner
LeftoverCred(k, cg, used_c) ==
    LET left == SelectSeq([j \in 1..Len(cg) |-> j], LAMBDA j : j \notin used_c)
    IN  [n \in 1..Len(left) |-> CredRow(k, None, Some(cg[left[n]]))]

\* the rows of one group: those of the TRIER loop, then the CREDCOM leftovers
WithLeftover(k, cg, m) == m.out \o LeftoverCred(k, cg, m.used)

GroupRows(k, t, c) ==
    WithLeftover(k, Group(c, k), MatchTrier(k, Group(t, k), Group(c, k), 1, {}, <<>>))

\* a build whose set of used CREDCOM places is carried from each group to the
\* next one instead of starting empty
RECURSIVE AllGroupRowsSharedUsed(_, _, _, _, _)
AllGroupRowsSharedUsed(keys, t, c, n, used_c) ==
    IF n > Len(keys) THEN <<>>
    ELSE LET m == MatchTrier(keys[n], Group(t, keys[n]), Group(c, keys[n]), 1, used_c, <<>>)
         IN  WithLeftover(keys[n], Group(c, keys[n]), m)
             \o AllGroupRowsSharedUsed(keys, t, c, n + 1, m.used)

AllGroupRowsShared(keys, t, c) == AllGroupRowsSharedUsed(keys, t, c, 1, {})

\* the rows of all groups, in the order of the sorted keys
AllGroupRows(keys, t, c) == Concat([n \in 1..Len(keys) |-> GroupRows(keys[n], t, c)])

CredOutRows(t, c) == AllGroupRows(CredKeys(t, c), t, c)

\* sort_key of a row and the order of two keys
CredSortKey(r) ==
    <<DateOrd(Val(parse_date_br(r.cells[2]))), StrNat(r.cells[1]), r.cells[3], r.cells[5]>>

\* an order that looks at the date alone
CredSortLessByDate(k1, k2) == k1[1] < k2[1]

CredSortLess(k1, k2) ==
    \/ k1[1] < k2[1]
    \/ k1[1] = k2[1] /\ k1[2] < k2[2]
    \/ k1[1] = k2[1] /\ k1[2] = k2[2] /\ StrLess(k1[3], k2[3])
    \/ k1[1] = k2[1] /\ k1[2] = k2[2] /\ k1[3] = k2[3] /\ StrLess(k1[4], k2[4])

\* build_conferencia_rows: [ok |-> FALSE] stands for the ValueError raised
\* for a missing column
build_conferencia_rows(df_trier, df_cred) ==
    IF ~ (CredRequired \subseteq df_trier.cols /\ CredRequired \subseteq df_cred.cols)
    THEN [ok |-> FALSE, rows |-> <<>>]
    ELSE [ok   |-> TRUE,
          rows |-> StableSort(CredOutRows(CredDropNa(CredNorm(df_trier, TrierCols)),
                                          CredDropNa(CredNorm(df_cred, CredcomCols))),
                              CredSortKey, CredSortLess)]

(***************************************************************************)
(* minerva/comb_trier_minerva_sg.py: helpers.                              *)
(***************************************************************************)
\* parse_brl_money of the minerva script, text cells
minerva_parse_brl_money(x) ==
    LET s0     == Strip(x)
        s      == RemoveChar(RemoveRS(s0), " ")
        dots   == {i \in 1..Len(s) : s[i] = "."}
        plain  == /\ s # <<>> /\ IsDigit(s[1]) /\ IsDigit(s[Len(s)])
                  /\ Cardinality(dots) <= 1
                  /\ \A i \in 1..Len(s) : IsDigit(s[i]) \/ s[i] = "."
        digits == SelectSeq(s, IsDigit)
    IN  IF s0 = <<>> \/ s0 = <<"-">> THEN None
        ELSE IF \E i \in 1..Len(s) : s[i] = ","
            THEN PyFloat(MapChar(RemoveChar(s, "."), ",", "."))
        ELSE IF plain THEN PyFloat(s)
        ELSE IF digits = <<>> THEN None
        ELSE IF Len(digits) <= 3 THEN Some(FromRatio(StrNat(digits), 1))
        ELSE Some(FromRatio(StrNat(digits), 100))

\* normalize_cpf
normalize_cpf(x) ==
    LET s == ZFill(SelectSeq(x, IsDigit), 11)
    IN  IF SelectSeq(x, IsDigit) = <<>> THEN None
        ELSE IF Len(s) = 11 THEN Some(s) ELSE None

\* the eleven digits d as ###.###.###-##
CpfShape(d) ==
    SubSeq(d, 1, 3) \o <<".">> \o SubSeq(d, 4, 6) \o <<".">>
        \o SubSeq(d, 7, 9) \o <<"-">> \o SubSeq(d, 10, 11)

\* format_cpf, for None or a text: a text of eleven characters that are not
\* all digits holds no match of (\d{3})(\d{3})(\d{3})(\d{2}) and re.sub
\* returns it as it is
format_cpf(cpf_digits) ==
    IF cpf_digits = None \/ Len(Val(cpf_digits)) # 11 THEN DASH
    ELSE IF AllDigits(Val(cpf_digits)) THEN CpfShape(Val(cpf_digits))
    ELSE Val(cpf_digits)

\* Series.sum(): the values added from left to right
SeqSum(vals) ==
    LET acc[n \in 0..Len(vals)] == IF n = 0 THEN FZero ELSE FAdd(acc[n - 1], vals[n])
    IN  acc[Len(vals)]

\* groupby(...).agg("sum"): pandas adds a group's values with Kahan's
\* compensated summation
KahanOut(st, y, t) == [sum |-> t, comp |-> FSub(FSub(t, st.sum), y)]

KahanAdd(st, y) == KahanOut(st, y, FAdd(st.sum, y))

KahanStep(st, v) == KahanAdd(st, FSub(v, st.comp))

KahanSum(vals) ==
    LET st[n \in 0..Len(vals)] ==
            IF n = 0 THEN [sum |-> FZero, comp |-> FZero]
            ELSE KahanStep(st[n - 1], vals[n])
    IN  st[Len(vals)].sum

\* a tuple of strings compared as Python compares tuples
TupleLess(k1, k2) ==
    \E i \in 1..Len(k1) : StrLess(k1[i], k2[i]) /\ \A j \in 1..(i - 1) : k1[j] = k2[j]

\* the strings of a set in ascending order
RECURSIVE SortedStrs(_)
SortedStrs(S) ==
    IF S = {} THEN <<>>
    ELSE LET m == CHOOSE x \in S : \A y \in S \ {x} : StrLess(x, y)
         IN  <<m>> \o SortedStrs(S \ {m})

(***************************************************************************)
(* minerva: build_conferencia_cpf_valor.                                   *)
(***************************************************************************)
MinRequired == {"cliente", "cpf", "valor"}

\* the derived columns of one ledger row
MinCols(r) ==
    [cpf     |-> normalize_cpf(r.cpf),
     valor   |-> minerva_parse_brl_money(r.valor),
     cliente |-> r.cliente]

\* the derived columns of every row the ledgers are made of
MinTrierCols == [r \in MinTrierPool |-> MinCols(r)]

MinTrierFilial == [r \in MinTrierPool |-> to_numeric(r.filial)]

MinervaCols == [r \in MinervaPool |-> MinCols(r)]

\* the derived columns of TRIER (a) and MINERVA (b); idx is the row's label
MinNormA(df) ==
    [i \in 1..Len(df.rows) |->
        [idx    |-> i,
         filial |-> IF "filial" \in df.cols THEN MinTrierFilial[df.rows[i]] ELSE None]
        @@ MinTrierCols[df.rows[i]]]

MinNormB(df) ==
    [i \in 1..Len(df.rows) |-> [idx |-> i] @@ MinervaCols[df.rows[i]]]

\* dropna(subset=["cpf_norm", "Valor_num"]): the rows kept hold their labels
MinDropNa(t) == SelectSeq(t, LAMBDA r : r.cpf # None /\ r.valor # None)

\* for i in range(len(a)): a.at[i, "cpf_norm"] finds every label it asks for
LabelsFound(a) == \A n \in 1..Len(a) : a[n].idx = n

\* b_grp / b_map: per CPF the total and the first client name
BRows(b, cpf) == SelectSeq(b, LAMBDA r : Val(r.cpf) = cpf)

BCpfs(b) == SortedStrs({Val(b[j].cpf) : j \in 1..Len(b)})

BTotal(b, cpf) == KahanSum([n \in 1..Len(BRows(b, cpf)) |-> Val(BRows(b, cpf)[n].valor)])

BCliente(b, cpf) == BRows(b, cpf)[1].cliente

\* a_by_cpf: the CPFs in the order they first appear, and each one's rows
RECURSIVE FirstSeen(_, _)
FirstSeen(a, seen) ==
    IF a = <<>> THEN <<>>
    ELSE IF Val(a[1].cpf) \in seen THEN FirstSeen(Tail(a), seen)
    ELSE <<Val(a[1].cpf)>> \o FirstSeen(Tail(a), seen \cup {Val(a[1].cpf)})

ARows(a, cpf) == SelectSeq(a, LAMBDA r : Val(r.cpf) = cpf)

\* a total that is the amount of the first line alone
TrierFirstLine(a, cpf) == Val(ARows(a, cpf)[1].valor)

TrierSum(a, cpf) == SeqSum([n \in 1..Len(ARows(a, cpf)) |-> Val(ARows(a, cpf)[n].valor)])

\* sorted(idxs, key=(filial or -1, valor, cliente))
LineKey(r) == <<IF r.filial = None THEN -1 ELSE Val(r.filial), Val(r.valor), r.cliente>>

LineLess(k1, k2) ==
    \/ k1[1] < k2[1]
    \/ k1[1] = k2[1] /\ FLess(k1[2], k2[2])
    \/ k1[1] = k2[1] /\ k1[2] = k2[2] /\ StrLess(k1[3], k2[3])

StatusAll(trier_sum, minerva_total) ==
    IF WithinTol(trier_sum, minerva_total) THEN ST_OK ELSE ST_DIVERGENTE

\* the dicts appended for one CPF of TRIER (ia: the TRIER row's label, 0 for
\* none; the *_for_key entries, which nothing reads, are left out)
CpfLines(lines, cpf, status, minerva_nome, minerva_val) ==
    [k \in 1..Len(lines) |->
        [filial       |-> lines[k].filial,
         cpf_digits   |-> cpf,
         trier_nome   |-> lines[k].cliente,
         trier_val    |-> lines[k].valor,
         minerva_nome |-> IF k = 1 THEN minerva_nome ELSE DASH,
         minerva_val  |-> IF k = 1 THEN minerva_val ELSE None,
         status_calc  |-> status,
         ia           |-> lines[k].idx]]

CpfItems(a, b, cpf) ==
    IF \E j \in 1..Len(b) : Val(b[j].cpf) = cpf
    THEN CpfLines(StableSort(ARows(a, cpf), LineKey, LineLess), cpf,
                  StatusAll(TrierSum(a, cpf), BTotal(b, cpf)),
                  BCliente(b, cpf), Some(BTotal(b, cpf)))
    ELSE CpfLines(StableSort(ARows(a, cpf), LineKey, LineLess), cpf, ST_SOMENTE_TRIER, DASH, None)

\* the MINERVA-only CPFs, in b_map's order
LeftoverItems(a, b) ==
    LET left == SelectSeq(BCpfs(b), LAMBDA cpf : \A i \in 1..Len(a) : Val(a[i].cpf) # cpf)
    IN  [n \in 1..Len(left) |->
            [filial       |-> None,
             cpf_digits   |-> left[n],
             trier_nome   |-> DASH,
             trier_val    |-> None,
             minerva_nome |-> BCliente(b, left[n]),
             minerva_val  |-> Some(BTotal(b, left[n])),
             status_calc  |-> ST_SOMENTE_MINERVA,
             ia           |-> 0]]

\* sort_key of an item
MinSortKey(d) == <<format_cpf(Some(d.cpf_digits)), d.status_calc, d.trier_nome, d.minerva_nome>>

\* build_conferencia_cpf_valor: [ok |-> FALSE] stands for the exception raised
\* (ValueError for a missing column, KeyError for a label that dropna removed)
AllCpfItems(a, b, cpfs) ==
    Concat([n \in 1..Len(cpfs) |-> CpfItems(a, b, cpfs[n])]) \o LeftoverItems(a, b)

MinOutRows(a, b) ==
    IF ~ LabelsFound(a) THEN [ok |-> FALSE, rows |-> <<>>]
    ELSE [ok |-> TRUE, rows |-> StableSort(AllCpfItems(a, b, FirstSeen(a, {})), MinSortKey, TupleLess)]

build_conferencia_cpf_valor(df_a, df_b) ==
    IF ~ (MinRequired \subseteq df_a.cols /\ MinRequired \subseteq df_b.cols)
    THEN [ok |-> FALSE, rows |-> <<>>]
    ELSE MinOutRows(MinDropNa(MinNormA(df_a)), MinDropNa(MinNormB(df_b)))

(***************************************************************************)
(* The output worksheet: a grid of text cells, columns A..H, rows from 1.  *)
(* The grid is kept without trailing empty rows.                           *)
(***************************************************************************)
\* the columns A..H of the output sheet
Width == 8

EmptyRow == [c \in 1..Width |-> <<>>]

\* the last non-empty cell of a row (0 for an empty row)
LastUsed(row) ==
    IF \A c \in 1..Len(row) : row[c] = <<>> THEN 0
    ELSE CHOOSE c \in 1..Len(row) : row[c] # <<>> /\ \A d \in (c + 1)..Len(row) : row[d] = <<>>

Trim(grid) ==
    IF \A i \in 1..Len(grid) : LastUsed(grid[i]) = 0 THEN <<>>
    ELSE SubSeq(grid, 1, CHOOSE i \in 1..Len(grid) :
                            LastUsed(grid[i]) # 0 /\ \A j \in (i + 1)..Len(grid) : LastUsed(grid[j]) = 0)

\* ws.get_all_values(): the rows down to the last one in use, each as wide as
\* the widest of them
get_all_values(grid) ==
    LET w == CHOOSE n \in 0..Width : /\ \A i \in 1..Len(grid) : LastUsed(grid[i]) <= n
                                     /\ (n = 0 \/ \E i \in 1..Len(grid) : LastUsed(grid[i]) = n)
    IN  [i \in 1..Len(grid) |-> SubSeq(grid[i], 1, w)]

\* ws.update("A{start_row}", chunk): the chunk's cells replace those in place
ws_update(grid, start_row, chunk) ==
    LET n   == Max(Len(grid), start_row + Len(chunk) - 1)
        old == [i \in 1..n |-> IF i <= Len(grid) THEN grid[i] ELSE EmptyRow]
    IN  Trim([i \in 1..n |->
                IF i \in start_row..(start_row + Len(chunk) - 1)
                THEN [c \in 1..Width |-> IF c <= Len(chunk[i - start_row + 1])
                                         THEN chunk[i - start_row + 1][c] ELSE old[i][c]]
                ELSE old[i]])

\* ws.batch_clear(["A{start_row}:H{end_row}"])
ws_batch_clear(grid, start_row, end_row) ==
    Trim([i \in 1..Len(grid) |-> IF i \in start_row..end_row THEN EmptyRow ELSE grid[i]])

\* the chunk_size handed to write_values_chunked (500 in the scripts)
ChunkSize == 2

\* the chunk written by the loop iteration at offset i
Chunk(values, i) == SubSeq(values, i + 1, Min(i + ChunkSize, Len(values)))

\* a run that leaves the rows below the new table alone
KeepLeftoverRows(grid, start_row, end_row) == grid

\* clear_leftover_rows after the write
clear_leftover_rows(grid, start_row, end_row) ==
    IF end_row >= start_row THEN ws_batch_clear(grid, start_row, end_row) ELSE grid

CRED_HEADER == << <<"F", "i", "l", "i", "a", "l">>,
                  <<"D", "a", "t", "a", " ", "E", "m", "i", "s", "s", "a~", "o">>,
                  <<"T", "R", "I", "E", "R">>,
                  <<"V", "a", "l", "o", "r">>,
                  <<"C", "R", "E", "D", "C", "O", "M">>,
                  <<"V", "a", "l", "o", "r">>,
                  <<"S", "T", "A", "T", "U", "S">> >>

MIN_HEADER == << <<"F", "i", "l", "i", "a", "l">>,
                 <<"C", "P", "F">>,
                 <<"T", "R", "I", "E", "R">>,
                 <<"V", "a", "l", "o", "r">>,
                 <<"M", "I", "N", "E", "R", "V", "A">>,
                 <<"V", "a", "l", "o", "r">>,
                 <<"S", "T", "A", "T", "U", "S">>,
                 <<"A", "n", "o", "t", "a", "c,", "o~", "e", "s">> >>

\* a key that tells rows of one CPF apart by their status
RowKeyWithStatus(row) == <<normalize_cpf(row[2]), row[7]>>

\* build_row_key: "<cpf digits>|<filial>", either part empty when absent
build_row_key(filial, cpf_digits) ==
    (IF normalize_cpf(cpf_digits) = None THEN <<>> ELSE Val(normalize_cpf(cpf_digits)))
        \o <<"|">> \o (IF filial = None THEN <<>> ELSE NatStr(Val(filial)))

\* the key a persisted row is looked up under: normalize_cpf(row[1])
RowKey(row) == normalize_cpf(row[2])

\* a reader that finds no annotation
ReadNoAnnotations(grid) == <<>>

\* a row taken as it is
KeepRow(row) == row

\* row + [""] * (8 - len(row)); a list times a negative number is empty
PadRow(row) == row \o [c \in 1..Max(0, 8 - Len(row)) |-> <<>>]

\* the IndexError of row[1] or, once the CPF is read, of row[7]
RowRaises(row) == Len(row) < 2 \/ (RowKey(row) # None /\ Len(row) < 8)

\* a loop in which a later annotation of a CPF replaces the earlier one
AnnotationsOfLast(values) ==
    LET ann[n \in 1..Len(values)] ==
            IF n = 1 THEN << >>
            ELSE LET cpf  == RowKey(PadRow(values[n]))
                     anot == Strip(PadRow(values[n])[8])
                     rest == SelectSeq(ann[n - 1], LAMBDA e : Some(e[1]) # cpf)
                 IN  IF cpf = None \/ anot = <<>> THEN ann[n - 1]
                     ELSE Append(rest, <<Val(cpf), anot>>)
    IN  [raised |-> FALSE, map |-> IF values = <<>> THEN <<>> ELSE ann[Len(values)]]

\* the loop of read_existing_annotations over the values of the sheet: per
\* CPF the first non-blank annotation, stripped
AnnotationsOf(values) ==
    LET ann[n \in 1..Len(values)] ==
            IF n = 1 THEN << >>
            ELSE LET cpf  == RowKey(PadRow(values[n]))
                     anot == Strip(PadRow(values[n])[8])
                     seen == {ann[n - 1][k][1] : k \in 1..Len(ann[n - 1])}
                 IN  IF cpf = None THEN ann[n - 1]
                     ELSE IF Val(cpf) \notin seen /\ anot # <<>>
                         THEN Append(ann[n - 1], <<Val(cpf), anot>>)
                     ELSE ann[n - 1]
    IN  IF values = <<>> THEN [raised |-> FALSE, map |-> <<>>]
        ELSE IF \E n \in 2..Len(values) : RowRaises(PadRow(values[n]))
            THEN [raised |-> TRUE, map |-> <<>>]
        ELSE [raised |-> FALSE, map |-> ann[Len(values)]]

\* read_existing_annotations
read_existing_annotations(grid) == AnnotationsOf(get_all_values(grid)).map

\* a lookup that marks what it returns
AnnotGetMarked(annotations, cpf) ==
    (IF \E k \in 1..Len(annotations) : annotations[k][1] = cpf
     THEN annotations[CHOOSE k \in 1..Len(annotations) : annotations[k][1] = cpf][2]
     ELSE <<>>) \o <<"*">>

\* annotations.get(cpf_digits, ""), the dict being a list of (key, value)
AnnotGet(annotations, cpf) ==
    IF \E k \in 1..Len(annotations) : annotations[k][1] = cpf
    THEN annotations[CHOOSE k \in 1..Len(annotations) : annotations[k][1] = cpf][2]
    ELSE <<>>

\* rows that all carry one status
MinCellsFixed(d, annotations) ==
    <<IF d.filial = None THEN DASH ELSE NatStr(Val(d.filial)),
      format_cpf(Some(d.cpf_digits)), d.trier_nome, format_brl(d.trier_val), d.minerva_nome,
      IF d.minerva_val # None THEN format_brl(d.minerva_val) ELSE DASH,
      ST_DIVERGENTE, <<>> >>

\* the row main() writes for one item of the minerva conference
MinCells(d, annotations) ==
    <<IF d.filial = None THEN DASH ELSE NatStr(Val(d.filial)),
      format_cpf(Some(d.cpf_digits)),
      d.trier_nome,
      format_brl(d.trier_val),
      d.minerva_nome,
      IF d.minerva_val # None THEN format_brl(d.minerva_val) ELSE DASH,
      d.status_calc,
      AnnotGet(annotations, d.cpf_digits)>>

(***************************************************************************)
(* The sheets the runs start from.                                         *)
(***************************************************************************)
\* the rows of the two ledgers together, and the number of runs
MaxRows == 3

MaxRuns == 2

\* the ledgers of at most n rows over a pool
Ledgers(pool, n) == UNION {[1..k -> pool] : k \in 0..n}

\* the pairs of ledgers of at most n rows together
LedgerPairs(poolA, poolB, n) ==
    {p \in Ledgers(poolA, n) \X Ledgers(poolB, n) : Len(p[1]) + Len(p[2]) <= n}

\* a header with every column, and headers that lack one required column
Headers(prog, side) ==
    IF prog = "credcom"
    THEN {CredRequired, CredRequired \ {"valor"}}
    ELSE IF side = "a" THEN {MinRequired \cup {"filial"}, MinRequired, {"filial", "cliente", "valor"}}
    ELSE {MinRequired, MinRequired \ {"valor"}}

NOTE_X == <<" ", "X", " ">>

NOTE_Y == <<"Y">>

\* a table earlier runs and the user left in the output sheet
StaleTable(prog) ==
    IF prog = "credcom"
    THEN << [c \in 1..Width |-> IF c <= 7 THEN CRED_HEADER[c] ELSE <<>>],
            <<<<"1">>, JAN05, ANA, <<"R", "$", " ", "9", ",", "0", "0">>, DASH, DASH,
              ST_SOMENTE_TRIER, <<>> >>,
            <<<<"3">>, JAN05, DASH, DASH, BIA, <<"R", "$", " ", "9", ",", "0", "0">>,
              ST_SOMENTE_CREDCOM, <<>> >>,
            <<<<"4">>, JAN05, BIA, <<"R", "$", " ", "9", ",", "0", "0">>, DASH, DASH,
              ST_SOMENTE_TRIER, <<>> >> >>
    ELSE << MIN_HEADER,
            <<<<"1">>, CPF_ANA_FMT, ANA_LIMA, <<"R", "$", " ", "9", ",", "0", "0">>, DASH, DASH,
              ST_SOMENTE_TRIER, NOTE_X>>,
            <<<<"2">>, CPF_ANA_FMT, ANA, <<"R", "$", " ", "9", ",", "0", "0">>, DASH, DASH,
              ST_SOMENTE_TRIER, NOTE_Y>>,
            <<DASH, <<"0", "0", "0", ".", "0", "0", "0", ".", "0", "0", "0", "-", "0", "7">>,
              DASH, <<"R", "$", " ", "0", ",", "0", "0">>, BIA, <<"R", "$", " ", "9", ",", "0", "0">>,
              ST_SOMENTE_MINERVA, <<>> >>,
            <<DASH, <<"0", "0", "0", ".", "0", "0", "0", ".", "0", "0", "0", "-", "0", "9">>,
              DASH, <<"R", "$", " ", "0", ",", "0", "0">>, BIA, <<"R", "$", " ", "9", ",", "0", "0">>,
              ST_OK, NOTE_Y>> >>

(***************************************************************************)
(* The runs of the two scripts over the ledger sheets and the output sheet.*)
(***************************************************************************)
VARIABLES
    prog,         \* the script that runs: "credcom" or "minerva"
    ws_a,         \* the TRIER ledger sheet
    ws_b,         \* the CREDCOM or MINERVA ledger sheet
    ws_out,       \* the output sheet
    pc,           \* where main() stands
    items,        \* what the build returned
    annotations,  \* what read_existing_annotations returned
    values,       \* [HEADER] + rows
    wi,           \* the offset i of write_values_chunked
    runs,         \* the runs completed so far
    prior,        \* the output sheet as the run in hand found it
    edited,       \* the user has edited the output sheet
    call,         \* the helper called on its own: its argument and what it returned
    retry,        \* retry_api_call: its arguments, its loop and the calls of func
    cdl           \* append_df_to_sheet: the worksheet, the frame in hand, the frames handed over

vars == <<retry, cdl, call, prog, ws_a, ws_b, ws_out, pc, items, annotations, values, wi, runs, prior, edited>>

Progs == {"credcom", "minerva"}

\* no helper is called on its own during the runs of main()
NoCall == [kind |-> "none", input |-> <<>>, fn |-> "none", arg |-> <<>>, ret |-> <<>>]

PoolA(p) == IF p = "credcom" THEN CredTrierPool ELSE MinTrierPool

PoolB(p) == IF p = "credcom" THEN CredcomPool ELSE MinervaPool

\* retry_api_call and append_df_to_sheet not called
NoRetry == [retries |-> 0, delay |-> 0, i |-> 0, pc |-> "none", calls |-> <<>>, slept |-> 0,
            result |-> [kind |-> "none", status |-> 0, value |-> ""]]

NoCdl == [ws |-> <<>>, pc |-> "none", df |-> [columns |-> <<>>, rows |-> <<>>], i |-> 0,
          appended |-> <<>>]

InitWith(p, a, ha, b, hb, out) ==
    /\ retry = NoRetry /\ cdl = NoCdl
    /\ prog = p
    /\ ws_a = [header |-> ha, rows |-> a]
    /\ ws_b = [header |-> hb, rows |-> b]
    /\ ws_out = out
    /\ pc = "start"
    /\ items = <<>>
    /\ annotations = <<>>
    /\ values = <<>>
    /\ wi = 0
    /\ runs = 0
    /\ prior = out
    /\ edited = FALSE
    /\ call = NoCall

FullHeader(p, side) ==
    IF p = "credcom" THEN CredRequired
    ELSE IF side = "a" THEN MinRequired \cup {"filial"} ELSE MinRequired

\* the ledgers have every column and the output sheet holds an older table,
\* or the ledgers are short, may lack a column, and the sheet may be new
Init ==
    \E p \in Progs :
        \/ \E l \in LedgerPairs(PoolA(p), PoolB(p), MaxRows) :
              InitWith(p, l[1], FullHeader(p, "a"), l[2], FullHeader(p, "b"), StaleTable(p))
        \/ \E a \in Ledgers(PoolA(p), 1), b \in Ledgers(PoolB(p), 1),
              ha \in Headers(p, "a"), hb \in Headers(p, "b"), out \in {<<>>, StaleTable(p)} :
              InitWith(p, a, ha, b, hb, out)

\* the build returns res, or raises and ends the run
BuildReturns(res, next) ==
    IF res.ok THEN items' = res.rows /\ pc' = next
    ELSE items' = <<>> /\ pc' = "failed"

\* credcom main(): build_conferencia_rows
CredBuild ==
    /\ prog = "credcom" /\ pc = "start"
    /\ BuildReturns(build_conferencia_rows(DataFrame(ws_a), DataFrame(ws_b)), "clear")
    /\ UNCHANGED <<retry, cdl, call, prog, ws_a, ws_b, ws_out, annotations, values, wi, runs, prior, edited>>

\* credcom main(): ws_out.clear(); values = [HEADER] + rows
CredClear ==
    /\ prog = "credcom" /\ pc = "clear"
    /\ ws_out' = <<>>
    /\ values' = <<CRED_HEADER>> \o [n \in 1..Len(items) |-> items[n].cells]
    /\ wi' = 0
    /\ pc' = "write"
    /\ UNCHANGED <<retry, cdl, call, prog, ws_a, ws_b, items, annotations, runs, prior, edited>>

\* minerva main(): build_conferencia_cpf_valor
MinervaBuild ==
    /\ prog = "minerva" /\ pc = "start"
    /\ BuildReturns(build_conferencia_cpf_valor(DataFrame(ws_a), DataFrame(ws_b)), "annot")
    /\ UNCHANGED <<retry, cdl, call, prog, ws_a, ws_b, ws_out, annotations, values, wi, runs, prior, edited>>

\* minerva main(): read_existing_annotations, the rows, values = [HEADER] + rows
MinervaRows ==
    /\ prog = "minerva" /\ pc = "annot"
    /\ annotations' = read_existing_annotations(ws_out)
    /\ values' = <<MIN_HEADER>> \o [n \in 1..Len(items) |-> MinCells(items[n], annotations')]
    /\ wi' = 0
    /\ pc' = "write"
    /\ UNCHANGED <<retry, cdl, call, prog, ws_a, ws_b, ws_out, items, runs, prior, edited>>

\* one iteration of the loop of write_values_chunked; after the last one the
\* credcom run is over and the minerva run goes on to the leftover rows
WriteChunk ==
    /\ pc = "write" /\ wi < Len(values)
    /\ ws_out' = ws_update(ws_out, 1 + wi, Chunk(values, wi))
    /\ wi' = wi + ChunkSize
    /\ pc' = IF wi' < Len(values) THEN "write"
             ELSE IF prog = "minerva" THEN "leftover" ELSE "done"
    /\ runs' = IF pc' = "done" THEN runs + 1 ELSE runs
    /\ UNCHANGED <<retry, cdl, call, prog, ws_a, ws_b, items, annotations, values, prior, edited>>

\* minerva main(): prev_len, new_len and clear_leftover_rows
ClearLeftover ==
    /\ prog = "minerva" /\ pc = "leftover"
    /\ LET prev_len == Len(get_all_values(ws_out))
           new_len  == Len(values)
       IN  ws_out' = IF prev_len > new_len
                     THEN clear_leftover_rows(ws_out, new_len + 1, prev_len)
                     ELSE ws_out
    /\ pc' = "done"
    /\ runs' = runs + 1
    /\ UNCHANGED <<retry, cdl, call, prog, ws_a, ws_b, items, annotations, values, wi, prior, edited>>

\* the script is run again over the same ledgers
Rerun ==
    /\ pc \in {"done", "idle"} /\ runs < MaxRuns
    /\ pc' = "start"
    /\ prior' = ws_out
    /\ items' = <<>> /\ annotations' = <<>> /\ values' = <<>> /\ wi' = 0
    /\ UNCHANGED <<retry, cdl, call, prog, ws_a, ws_b, ws_out, runs, edited>>

Next ==
    \/ CredBuild
    \/ CredClear
    \/ MinervaBuild
    \/ MinervaRows
    \/ WriteChunk
    \/ ClearLeftover
    \/ Rerun

Spec == Init /\ [][Next]_vars

(***************************************************************************)
(* Runs of the minerva script with a user who edits the STATUS or the      *)
(* Anotacoes cell of one row of the output sheet between two runs.         *)
(***************************************************************************)
\* the rows of the two ledgers together
EditRows == 3

InitEdit ==
    \E l \in LedgerPairs({MT1, MT2}, {MM1, MM2}, EditRows) :
        InitWith("minerva", l[1], FullHeader("minerva", "a"), l[2], FullHeader("minerva", "b"),
                 StaleTable("minerva"))

\* what the user may type into a STATUS cell (column G) or an annotation
\* cell (column H)
EditValues(c) == IF c = 7 THEN {ST_OK, ST_DIVERGENTE} ELSE {NOTE_X, NOTE_Y, <<>>}

\* between two runs the user changes one STATUS or annotation cell of the table
UserEdit ==
    /\ pc = "done" /\ ~ edited
    /\ \E n \in 2..Len(ws_out), c \in {7, 8} :
          \E v \in EditValues(c) \ {ws_out[n][c]} :
              ws_out' = Trim([ws_out EXCEPT ![n][c] = v])
    /\ edited' = TRUE /\ pc' = "idle"
    /\ UNCHANGED <<retry, cdl, call, prog, ws_a, ws_b, items, annotations, values, wi, runs, prior>>

NextEdit ==
    \/ MinervaBuild
    \/ MinervaRows
    \/ WriteChunk
    \/ ClearLeftover
    \/ Rerun
    \/ UserEdit

SpecEdit == InitEdit /\ [][NextEdit]_vars

(***************************************************************************)
(* The helpers called on their own: an amount text is parsed, an amount is *)
(* formatted and parsed back, a document id is normalized and formatted.   *)
(***************************************************************************)
\* the longest digit text parsed, the largest cents part formatted and the
\* longest digit run handed to normalize_cpf
MaxDigits == 5

MaxFrac == 99

MaxCpfDigits == 12

\* the texts of 1..n characters over the characters of S
RECURSIVE TextsOver(_, _)
TextsOver(S, n) ==
    IF n = 0 THEN {}
    ELSE {<<c>> : c \in S}
            \cup TextsOver(S, n - 1)
            \cup {Append(t, c) : t \in TextsOver(S, n - 1), c \in S}

DigitTexts == TextsOver({"0", "1", "5"}, MaxDigits)

UnitSamples == {0, 1, 12, 999, 1000, 1234, 100000, 1234567}

\* amounts written with a decimal comma and dots between the thousands
CommaTexts ==
    {Grouped(NatStr(u), ".") \o <<",">> \o ZFill(NatStr(c), 2) : u \in UnitSamples, c \in {0, 5, 56}}

\* empty and dash cells, a currency prefix, texts without a comma that are
\* no plain number
OddTexts ==
    {<<>>, <<" ">>, <<"-">>, <<"R", "$", " ", "1", ",", "5", "0">>,
     <<"1", ".", "2", "3", "4", ".", "5", "6", "7">>, <<"1", ".", "5">>,
     <<"R", "$", "1", "5", "0", "0", "0">>, <<"1", "5", "-">>, <<"-", "1", "5", "0", "0", "0">>,
     <<",">>, <<".">>, <<"1", ",", "2", ",", "3">>}

AmountTexts == DigitTexts \cup CommaTexts \cup OddTexts

\* the amounts of two decimal digits, in cents
AmountCents == {100 * u + c : u \in UnitSamples, c \in 0..MaxFrac}

CpfSeeds == {<<"1", "2", "3", "4", "5", "6", "7", "8", "9", "0", "1", "2", "3", "4", "5", "6">>,
             [i \in 1..16 |-> "0"]}

\* a digit run with a dot after every third digit
RECURSIVE Dotted(_)
Dotted(d) == IF Len(d) <= 3 THEN d ELSE SubSeq(d, 1, 3) \o <<".">> \o Dotted(SubSeq(d, 4, Len(d)))

\* the document ids as the ledgers may hold them: digit runs of every length,
\* bare, dotted, in the ###.###.###-## shape, between blanks, after a letter
CpfTexts ==
    UNION {{d, Dotted(d), <<" ">> \o d \o <<" ">>, <<"A">> \o d,
            IF Len(d) = 11 THEN CpfShape(d) ELSE d \o <<"-">>}
           : d \in {SubSeq(seed, 1, k) : seed \in CpfSeeds, k \in 0..MaxCpfDigits}}

(***************************************************************************)
(* data_comb.py: combine_and_conference_from_gsheets.  A ledger row is the *)
(* record of its five cells, text as get_all_values returns them.          *)
(***************************************************************************)
LowerSeq == <<"a", "b", "c", "d", "e", "f", "g", "h", "i", "j", "k", "l", "m",
              "n", "o", "p", "q", "r", "s", "t", "u", "v", "w", "x", "y", "z">>

\* str.upper() of the unaccented letters
Upper(s) ==
    [i \in 1..Len(s) |->
        IF \E k \in 1..26 : LowerSeq[k] = s[i]
        THEN UpperSeq[CHOOSE k \in 1..26 : LowerSeq[k] = s[i]] ELSE s[i]]

StartsWith(s, old) == Len(s) >= Len(old) /\ SubSeq(s, 1, Len(old)) = old

\* s.replace(old, new) for a non-empty old
RECURSIVE Replace(_, _, _)
Replace(s, old, new) ==
    IF s = <<>> THEN <<>>
    ELSE IF StartsWith(s, old) THEN new \o Replace(SubSeq(s, Len(old) + 1, Len(s)), old, new)
    ELSE <<Head(s)>> \o Replace(Tail(s), old, new)

\* ' '.join(s.split()) of a stripped text: every run of blanks becomes one
RECURSIVE JoinSplit(_)
JoinSplit(s) ==
    IF Len(s) < 2 THEN s
    ELSE IF IsSpace(s[1]) /\ IsSpace(s[2]) THEN JoinSplit(Tail(s))
    ELSE <<s[1]>> \o JoinSplit(Tail(s))

JOAO == <<" ", "J", "O", "A", "O">>

JOAO_TIL == <<" ", "J", "O", "A~", "O">>

\* clean_client_name (a cell of a sheet is never NaN)
clean_client_name(name) ==
    Replace(Replace(JoinSplit(Strip(Upper(name))), JOAO \o <<" ">>, JOAO_TIL \o <<" ">>),
            JOAO, JOAO_TIL)

\* str(n) for an integer
IntStr(n) == IF n < 0 THEN <<"-">> \o NatStr(-n) ELSE NatStr(n)

\* int(s) of a text: blanks around an optional minus and digits; None stands
\* for ValueError
PyInt(s) ==
    LET t == Strip(s)
    IN  IF t # <<>> /\ AllDigits(t) THEN Some(StrNat(t))
        ELSE IF Len(t) > 1 /\ t[1] = "-" /\ AllDigits(Tail(t)) THEN Some(0 - StrNat(Tail(t)))
        ELSE None

\* int(float(s)) for a text float() reads: the digits before the point, with
\* the sign (texts of fewer than 16 digits, where the double nearest to the
\* text has the integer part of the text)
TruncText(s) ==
    LET neg == s # <<>> /\ s[1] = "-"
        u   == IF neg THEN Tail(s) ELSE s
        ip  == IF \E i \in 1..Len(u) : u[i] = "."
               THEN SubSeq(u, 1, (CHOOSE i \in 1..Len(u) : u[i] = ".") - 1) ELSE u
    IN  IF neg THEN 0 - StrNat(ip) ELSE StrNat(ip)

\* pd.to_numeric(errors='coerce').fillna(0).astype(int) of a text cell
numeric_or_zero(x) ==
    IF PyFloat(Strip(x)) = None THEN 0 ELSE TruncText(Strip(x))

\* extract_parcel_number
extract_parcel_number(parcela) ==
    IF \E i \in 1..Len(parcela) : parcela[i] = "/"
    THEN LET head == SubSeq(parcela, 1, (CHOOSE i \in 1..Len(parcela) :
                                 parcela[i] = "/" /\ \A j \in 1..(i-1) : parcela[j] # "/") - 1)
             n    == PyInt(Replace(head, SubSeq(PARCELA, 1, 7), <<>>))
         IN  IF n = None THEN 0 ELSE Val(n)
    ELSE LET u == RemoveChar(RemoveChar(parcela, "."), "-")
         IN  IF u = <<>> \/ ~ AllDigits(u) \/ PyFloat(parcela) = None THEN 0
             ELSE TruncText(parcela)

\* round(x, 2): the double nearest to x rounded to two decimal digits
Round2(x) ==
    IF x.s = 1 THEN FNeg(FromRatio(Cents(x), 100)) ELSE FromRatio(Cents(x), 100)

\* clean_value
clean_value(val) ==
    LET v == PyFloat(Strip(MapChar(RemoveChar(RemoveRS(val), "."), ",", ".")))
    IN  IF v = None THEN FZero ELSE Round2(Val(v))

\* pd.to_datetime(format='%d/%m/%Y', errors='coerce'), NaT filled with the day
\* of the run
date_or_default(x, default_date) ==
    IF x # Strip(x) \/ parse_date_br(x) = None THEN default_date ELSE Val(parse_date_br(x))

\* dt.strftime('%Y-%m-%d')
strftime_iso(dt) ==
    ZFill(NatStr(dt.y), 4) \o <<"-">> \o ZFill(NatStr(dt.m), 2) \o <<"-">> \o ZFill(NatStr(dt.d), 2)

\* the column Chave
Chave(filial, cliente, data, parcela_num) ==
    IntStr(filial) \o <<"_">> \o cliente \o <<"_">> \o strftime_iso(data) \o <<"_">> \o IntStr(parcela_num)

\* a ledger after the cleaning steps 1 to 5 and the key column
CleanRow(r, cliente, parcela_num, default_date) ==
    [Filial       |-> numeric_or_zero(r.filial),
     Cliente      |-> cliente,
     Data_Emissao |-> date_or_default(r.data, default_date),
     Parcela_Num  |-> parcela_num,
     Valor_Num    |-> clean_value(r.valor),
     Chave        |-> Chave(numeric_or_zero(r.filial), cliente,
                            date_or_default(r.data, default_date), parcela_num)]

RECURSIVE CleanCred(_, _)
CleanCred(rows, default_date) ==
    IF rows = <<>> THEN <<>>
    ELSE <<CleanRow(Head(rows), clean_client_name(Head(rows).cliente),
                    numeric_or_zero(Head(rows).parcela), default_date)>>
            \o CleanCred(Tail(rows), default_date)

RECURSIVE CleanTrier(_, _)
CleanTrier(rows, default_date) ==
    IF rows = <<>> THEN <<>>
    ELSE <<CleanRow(Head(rows), clean_client_name(Head(rows).cliente),
                    extract_parcel_number(Head(rows).parcela), default_date)>>
            \o CleanTrier(Tail(rows), default_date)

\* f'R$ {v:.2f}'
FormatValor(v) ==
    <<"R", "$", " ">> \o (IF v.s = 1 THEN <<"-">> ELSE <<>>)
        \o NatStr(Cents(v) \div 100) \o <<".">> \o ZFill(NatStr(Cents(v) % 100), 2)

NAO_REGISTRADO == <<"N", "a~", "o", " ", "r", "e", "g", "i", "s", "t", "r", "a", "d", "o">>

ST_MATCH == <<"CHECK", " ", "M", "A", "T", "C", "H">>

ST_DISCREPANCIA == <<"WARN", "VS16", " ", "D", "I", "S", "C", "R", "E", "P", "A", "N", "C", "I", "A">>

ST_FALTA_TRIER == <<"CROSS", " ", "F", "A", "L", "T", "A", " ", "N", "O", " ", "T", "R", "I", "E", "R">>

ST_FALTA_CRED == <<"CROSS", " ", "F", "A", "L", "T", "A", " ", "N", "O", " ",
                   "C", "R", "E", "D", "C", "O", "M", "M", "E", "R", "C", "E">>

\* df[df['Chave'] == key]
WithKey(df, key) == SelectSeq(df, LAMBDA r : r.Chave = key)

\* abs(valor_cred - valor_trier) <= 0.02
ValuesMatch(valor_cred, valor_trier) == FLeq(FAbs(FSub(valor_cred, valor_trier)), FromRatio(2, 100))

\* a pick that takes the last record of the key
IlocLast(rows) == rows[Len(rows)]

\* .iloc[0]
Iloc0(rows) == rows[1]

ConfRow(src, valor_cred, valor_trier, status) ==
    [Filial  |-> src.Filial,
     Cliente |-> src.Cliente,
     Data    |-> strftime(src.Data_Emissao),
     Parcela |-> src.Parcela_Num,
     Valor_CredCommerce |-> valor_cred,
     Valor_Trier        |-> valor_trier,
     Status  |-> status]

\* the row appended to conference_data for a key (the column Observacao,
\* which repeats the status in words, is left out)
ConferenceRow(cred_row, trier_row) ==
    IF cred_row # <<>> /\ trier_row # <<>>
    THEN ConfRow(Iloc0(cred_row), FormatValor(Iloc0(cred_row).Valor_Num),
                 FormatValor(Iloc0(trier_row).Valor_Num),
                 IF ValuesMatch(Iloc0(cred_row).Valor_Num, Iloc0(trier_row).Valor_Num)
                 THEN ST_MATCH ELSE ST_DISCREPANCIA)
    ELSE IF cred_row # <<>>
    THEN ConfRow(Iloc0(cred_row), FormatValor(Iloc0(cred_row).Valor_Num), NAO_REGISTRADO,
                 ST_FALTA_TRIER)
    ELSE ConfRow(Iloc0(trier_row), NAO_REGISTRADO, FormatValor(Iloc0(trier_row).Valor_Num),
                 ST_FALTA_CRED)

\* the order of sort_values(['Data_sort', 'Filial', 'Cliente', 'Parcela'])
ConfLess(r1, r2) ==
    LET d1 == DateOrd(Val(parse_date_br(r1.Data)))
        d2 == DateOrd(Val(parse_date_br(r2.Data)))
    IN  \/ d1 < d2
        \/ d1 = d2 /\ r1.Filial < r2.Filial
        \/ d1 = d2 /\ r1.Filial = r2.Filial /\ StrLess(r1.Cliente, r2.Cliente)
        \/ d1 = d2 /\ r1.Filial = r2.Filial /\ r1.Cliente = r2.Cliente /\ r1.Parcela < r2.Parcela

\* sort_values of the rows built for the keys of a set: no two of them have
\* the same sort key, so the order the set is walked in does not show
RECURSIVE SortedConference(_)
SortedConference(rows) ==
    IF rows = {} THEN <<>>
    ELSE LET first == CHOOSE r \in rows : \A q \in rows \ {r} : ~ ConfLess(q, r)
         IN  <<first>> \o SortedConference(rows \ {first})

\* all_keys
all_keys(cred, trier) == {cred[n].Chave : n \in 1..Len(cred)} \cup {trier[n].Chave : n \in 1..Len(trier)}

Conference(cred, trier) ==
    SortedConference({ConferenceRow(WithKey(cred, key), WithKey(trier, key)) : key \in all_keys(cred, trier)})

\* combine_and_conference_from_gsheets: the conference frame it returns for
\* the rows of the two sheets, run on the day default_date
combine_and_conference_from_gsheets(df_credcommerce, df_trier, default_date) ==
    IF Len(df_credcommerce) = 0 /\ Len(df_trier) = 0 THEN <<>>
    ELSE Conference(CleanCred(df_credcommerce, default_date), CleanTrier(df_trier, default_date))

\* the values of an output sheet as get_all_values may return them: a header
\* and at most MaxTableRows rows of 0 to MaxCells cells, with a CPF cell that
\* is a CPF, a short number or a dash, and an annotation cell that holds a
\* note, a blank or nothing
MaxCells == 9

MaxTableRows == 2

TableCpfs == {CPF_ANA_FMT, DASH, <<"5">>}

TableNotes == {NOTE_X, NOTE_Y, <<" ">>, <<>>}

WideRow(cpf, note) ==
    <<<<"1">>, cpf, ANA, <<"R", "$", " ", "9", ",", "0", "0">>, DASH, DASH, ST_SOMENTE_TRIER, note>>
        \o [c \in 1..(MaxCells - 8) |-> <<"Z">>]

TableRows == {SubSeq(WideRow(cpf, note), 1, l) :
                 cpf \in TableCpfs, note \in TableNotes, l \in {0, 1, 2, 7, 8, MaxCells}}

TableValues ==
    {<<>>} \cup {<<MIN_HEADER>> \o rows : rows \in UNION {[1..k -> TableRows] : k \in 0..MaxTableRows}}

InitHelpers ==
    /\ retry = NoRetry /\ cdl = NoCdl
    /\ prog = "helpers" /\ pc = "helpers"
    /\ ws_a = [header |-> {}, rows |-> <<>>] /\ ws_b = [header |-> {}, rows |-> <<>>]
    /\ ws_out = <<>> /\ prior = <<>>
    /\ items = <<>> /\ annotations = <<>> /\ values = <<>>
    /\ wi = 0 /\ runs = 0 /\ edited = FALSE
    /\ \/ \E t \in AmountTexts : call = [NoCall EXCEPT !.kind = "text", !.input = t]
       \/ \E n \in AmountCents : call = [NoCall EXCEPT !.kind = "cents", !.input = n]
       \/ \E t \in CpfTexts : call = [NoCall EXCEPT !.kind = "cpf", !.input = t]
       \/ \E v \in TableValues : call = [NoCall EXCEPT !.kind = "values", !.input = v]

Returns(fn, arg, ret) ==
    /\ call' = [call EXCEPT !.fn = fn, !.arg = arg, !.ret = ret]
    /\ UNCHANGED <<retry, cdl, prog, ws_a, ws_b, ws_out, pc, items, annotations, values, wi, runs, prior, edited>>

\* the text a parser is handed: the input, or what format_brl returned
ParserArg == IF call.fn = "format_brl" THEN call.ret ELSE call.input

ParserCalled == \/ call.kind = "text" /\ call.fn = "none"
                \/ call.fn = "format_brl"

\* format_brl of the double nearest to an amount of two decimal digits
CallFormatBrl ==
    /\ call.kind = "cents" /\ call.fn = "none"
    /\ Returns("format_brl", Some(FromRatio(call.input, 100)),
               format_brl(Some(FromRatio(call.input, 100))))

\* parse_brl_money of the credcom script
CallParseCredcom ==
    /\ ParserCalled
    /\ Returns("credcom_parse_brl_money", ParserArg, parse_brl_money(ParserArg))

\* parse_brl_money of the minerva script
CallParseMinerva ==
    /\ ParserCalled
    /\ Returns("minerva_parse_brl_money", ParserArg, minerva_parse_brl_money(ParserArg))

CallNormalizeCpf ==
    /\ call.kind = "cpf" /\ call.fn = "none"
    /\ Returns("normalize_cpf", call.input, normalize_cpf(call.input))

\* format_cpf of what normalize_cpf returned, or of the text as it came
CallFormatCpf ==
    /\ call.kind = "cpf"
    /\ \/ call.fn = "normalize_cpf" /\ Returns("format_cpf", call.ret, format_cpf(call.ret))
       \/ call.fn = "none" /\ Returns("format_cpf", Some(call.input), format_cpf(Some(call.input)))

\* the loop of read_existing_annotations over the values read from a sheet
CallReadAnnotations ==
    /\ call.kind = "values" /\ call.fn = "none"
    /\ Returns("read_existing_annotations", call.input, AnnotationsOf(call.input))

NextHelpers ==
    \/ CallFormatBrl
    \/ CallParseCredcom
    \/ CallParseMinerva
    \/ CallNormalizeCpf
    \/ CallFormatCpf
    \/ CallReadAnnotations

SpecHelpers == InitHelpers /\ [][NextHelpers]_vars

(***************************************************************************)
(* data_comb.py run on its own.                                            *)
(***************************************************************************)
\* the two ledgers data_comb reads and the day it runs on: at most
\* MaxCombRows rows in the two sheets together, with two TRIER and two
\* CREDCOMMERCE records of one key that differ in the amount, and a record
\* without a date
MaxCombRows == 3

DT1 == [filial |-> <<"1">>, cliente |-> <<"A", "N", "A", " ", "J", "O", "A", "O">>, data |-> JAN05,
        parcela |-> <<"P", "A", "R", "C", "E", "L", "A", " ", "1", "/", "3">>,
        valor |-> <<"R", "$", " ", "1", ",", "0", "0">>]

DT2 == [filial |-> <<"1">>, cliente |-> <<" ", "a", "n", "a", " ", " ", "j", "o", "a", "o">>,
        data |-> JAN05, parcela |-> <<"1", "/", "3">>, valor |-> <<"1", ",", "0", "5">>]

DT3 == [filial |-> <<"x">>, cliente |-> <<"B", "I", "A">>,
        data |-> <<"3", "1", "/", "0", "2", "/", "2", "0", "2", "6">>,
        parcela |-> <<>>, valor |-> <<"0", ",", "0", "5">>]

DC1 == [filial |-> <<"1">>, cliente |-> <<"A", "N", "A", " ", "J", "O", "A~", "O">>,
        data |-> JAN05, parcela |-> <<"1">>, valor |-> <<"1", ",", "0", "4">>]

DC2 == [filial |-> <<"1">>, cliente |-> <<"A", "n", "a", " ", "J", "o", "a", "o", " ">>,
        data |-> JAN05, parcela |-> <<"1", ".", "0">>, valor |-> <<"R", "$", "1", ",", "0", "1">>]

DC3 == [filial |-> <<"0">>, cliente |-> <<"B", "I", "A">>, data |-> JAN05,
        parcela |-> <<"x">>, valor |-> <<"0", ",", "0", "7">>]

RunDays == {[y |-> 2026, m |-> 1, d |-> 5], [y |-> 2026, m |-> 1, d |-> 6]}

CombInputs ==
    {[cred |-> l[1], trier |-> l[2], today |-> d] :
        l \in LedgerPairs({DC1, DC2, DC3}, {DT1, DT2, DT3}, MaxCombRows), d \in RunDays}

InitComb ==
    /\ retry = NoRetry /\ cdl = NoCdl
    /\ prog = "data_comb" /\ pc = "helpers"
    /\ ws_a = [header |-> {}, rows |-> <<>>] /\ ws_b = [header |-> {}, rows |-> <<>>]
    /\ ws_out = <<>> /\ prior = <<>>
    /\ items = <<>> /\ annotations = <<>> /\ values = <<>>
    /\ wi = 0 /\ runs = 0 /\ edited = FALSE
    /\ \E l \in CombInputs : call = [NoCall EXCEPT !.kind = "ledgers", !.input = l]

\* data_comb.py run on the two ledgers
CallCombine ==
    /\ call.kind = "ledgers" /\ call.fn = "none"
    /\ Returns("combine_and_conference_from_gsheets", call.input,
               combine_and_conference_from_gsheets(call.input.cred, call.input.trier,
                                                   call.input.today))

NextComb == CallCombine

SpecComb == InitComb /\ [][NextComb]_vars

(***************************************************************************)
(* process_file.py and sindsaude/proc_trier.py: retry_api_call(func,       *)
(* retries, delay).  func is the caller's: a call of it returns a value,   *)
(* raises an HttpError with a status (0 stands for an error without resp   *)
(* or without status) or raises another exception.                         *)
(***************************************************************************)
\* the largest `retries` handed to retry_api_call
MaxRetries == 4

Delays == {0, 2}

FuncOutcomes ==
    {[kind |-> "return", status |-> 0, value |-> v] : v \in {"r1", "r2"}}
        \cup {[kind |-> "HttpError", status |-> st, value |-> ""] : st \in {500, 404, 0}}
        \cup {[kind |-> "ValueError", status |-> 0, value |-> ""]}

MaxRetriesReached == [kind |-> "Exception", status |-> 0, value |-> "Max retries reached."]

\* a handler that retries after every HttpError
AnyHttpError(error) == error.kind = "HttpError"

\* except HttpError as error: ... if status == 500
Status500(error) == error.kind = "HttpError" /\ error.status = 500

InitRetry ==
    /\ prog = "retry_api_call" /\ pc = "helpers"
    /\ ws_a = [header |-> {}, rows |-> <<>>] /\ ws_b = [header |-> {}, rows |-> <<>>]
    /\ ws_out = <<>> /\ prior = <<>>
    /\ items = <<>> /\ annotations = <<>> /\ values = <<>>
    /\ wi = 0 /\ runs = 0 /\ edited = FALSE
    /\ call = NoCall /\ cdl = NoCdl
    /\ \E r \in 0..MaxRetries, d \in Delays :
          retry = [NoRetry EXCEPT !.retries = r, !.delay = d, !.pc = "for"]

RetryStep(next) ==
    /\ retry' = next
    /\ UNCHANGED <<cdl, call, prog, ws_a, ws_b, ws_out, pc, items, annotations, values, wi, runs,
                   prior, edited>>

\* for i in range(retries): try: return func(), with what func does
CallFunc ==
    /\ retry.pc = "for" /\ retry.i < retry.retries
    /\ \E o \in FuncOutcomes :
          RetryStep([retry EXCEPT
              !.calls  = Append(@, o),
              !.pc     = IF o.kind = "return" THEN "returned"
                         ELSE IF Status500(o) THEN "sleep" ELSE "raised",
              !.result = IF o.kind = "return" \/ ~ Status500(o) THEN o ELSE @])

\* logging.warning(...); time.sleep(delay), and the next i
SleepAndRetry ==
    /\ retry.pc = "sleep"
    /\ RetryStep([retry EXCEPT !.slept = @ + retry.delay, !.i = @ + 1, !.pc = "for"])

\* the loop is over: raise Exception("Max retries reached.")
RaiseMaxRetries ==
    /\ retry.pc = "for" /\ retry.i >= retry.retries
    /\ RetryStep([retry EXCEPT !.pc = "raised", !.result = MaxRetriesReached])

NextRetry ==
    \/ CallFunc
    \/ SleepAndRetry
    \/ RaiseMaxRetries

SpecRetry == InitRetry /\ [][NextRetry]_vars

\* func and time.sleep return: a step that can be taken is taken
SpecRetryLive == SpecRetry /\ WF_vars(NextRetry)

(***************************************************************************)
(* cdl.py: append_df_to_sheet.  The worksheet is a grid as above, holding  *)
(* one table that starts at A1; a frame is its columns and its rows.       *)
(***************************************************************************)
\* batch_size (100 in the script)
BatchSize == 2

\* the rows of the largest frame and the number of calls
MaxDfRows == 3

MaxAppends == 2

CDL_COLUMNS == << <<"F", "i", "l", "i", "a", "l">>, <<"C", "l", "i", "e", "n", "t", "e">>,
                  <<"D", "a", "t", "a", " ", "E", "m", "i", "s", "s", "a~", "o">>,
                  <<"P", "a", "r", "c", "e", "l", "a">>, <<"V", "a", "l", "o", "r">> >>

OTHER_COLUMNS == << <<"a">>, <<"b">> >>

CdlRow(valor) == << <<"1">>, ANA, JAN05, <<"1">>, valor >>

\* the frames handed to append_df_to_sheet: the five columns of main() with 0
\* to MaxDfRows rows, a frame of other columns, a frame without columns
Frames ==
    {[columns |-> CDL_COLUMNS, rows |-> r] :
        r \in UNION {[1..k -> {CdlRow(<<"7">>), CdlRow(<<"8">>)}] : k \in 0..MaxDfRows}}
    \cup {[columns |-> OTHER_COLUMNS, rows |-> << << <<"x">>, <<"y">> >> >>],
          [columns |-> <<>>, rows |-> <<>>]}

\* df.empty
DfEmpty(df) == Len(df.columns) = 0 \/ Len(df.rows) = 0

\* ws.append_row and ws.append_rows: the rows are written below the last row
\* of the table
append_rows(grid, rows) ==
    Trim(grid \o [n \in 1..Len(rows) |->
                     [c \in 1..Width |-> IF c <= Len(rows[n]) THEN rows[n][c] ELSE <<>>]])

\* a check that finds every sheet empty
AlwaysEmpty(existing_values) == TRUE

\* if not existing_values
NoValues(existing_values) == existing_values = <<>>

\* rows_list[i:i + batch_size]
Batch(rows_list, i) == SubSeq(rows_list, i + 1, Min(i + BatchSize, Len(rows_list)))

InitCdl ==
    /\ prog = "cdl" /\ pc = "helpers"
    /\ ws_a = [header |-> {}, rows |-> <<>>] /\ ws_b = [header |-> {}, rows |-> <<>>]
    /\ ws_out = <<>> /\ prior = <<>>
    /\ items = <<>> /\ annotations = <<>> /\ values = <<>>
    /\ wi = 0 /\ runs = 0 /\ edited = FALSE
    /\ call = NoCall /\ retry = NoRetry
    /\ cdl = [NoCdl EXCEPT !.pc = "idle"]

CdlStep(next) ==
    /\ cdl' = next
    /\ UNCHANGED <<retry, call, prog, ws_a, ws_b, ws_out, pc, items, annotations, values, wi, runs,
                   prior, edited>>

\* append_df_to_sheet(df, ...) down to the loop: an empty frame returns, a
\* sheet without values gets the header
AppendStart ==
    /\ cdl.pc = "idle" /\ Len(cdl.appended) < MaxAppends
    /\ \E df \in Frames :
          IF DfEmpty(df)
          THEN CdlStep([cdl EXCEPT !.appended = Append(@, df)])
          ELSE CdlStep([cdl EXCEPT
                  !.appended = Append(@, df),
                  !.df = df,
                  !.i  = 0,
                  !.pc = "batches",
                  !.ws = IF NoValues(get_all_values(cdl.ws))
                         THEN append_rows(cdl.ws, <<df.columns>>) ELSE cdl.ws])

\* one turn of the loop: ws.append_rows(batch); time.sleep(1)
AppendBatch ==
    /\ cdl.pc = "batches" /\ cdl.i < Len(cdl.df.rows)
    /\ CdlStep([cdl EXCEPT !.ws = append_rows(cdl.ws, Batch(cdl.df.rows, cdl.i)),
                           !.i  = @ + BatchSize])

\* the loop is over and the call returns
AppendReturn ==
    /\ cdl.pc = "batches" /\ cdl.i >= Len(cdl.df.rows)
    /\ CdlStep([cdl EXCEPT !.pc = "idle"])

NextCdl ==
    \/ AppendStart
    \/ AppendBatch
    \/ AppendReturn

SpecCdl == InitCdl /\ [][NextCdl]_vars

(***************************************************************************)
(* Properties of the builds.                                               *)
(***************************************************************************)
\* the places of the ledger rows the credcom build retains, and their columns
RetainedA == {i \in 1..Len(ws_a.rows) :
                 TrierCols[ws_a.rows[i]].filial # None /\ TrierCols[ws_a.rows[i]].date # None}

RetainedB == {j \in 1..Len(ws_b.rows) :
                 CredcomCols[ws_b.rows[j]].filial # None /\ CredcomCols[ws_b.rows[j]].date # None}

ColsA(i) == TrierCols[ws_a.rows[i]]

ColsB(j) == CredcomCols[ws_b.rows[j]]

RowsOfA(i) == {n \in 1..Len(items) : items[n].ia = i}

RowsOfB(j) == {n \in 1..Len(items) : items[n].ib = j}

\* the places of the TRIER lines the minerva build retains
RetainedLines == {i \in 1..Len(ws_a.rows) :
                     MinTrierCols[ws_a.rows[i]].cpf # None /\ MinTrierCols[ws_a.rows[i]].valor # None}

\* C1: when a build returns, every retained ledger-A record is in exactly one
\* output row, a matched row or an only-A row of its own (branch, date)
\* partition showing its own name, and a record that was not retained is in
\* none; in the CPF build every retained TRIER line is in exactly one row
C1_PartitionOfA ==
    /\ (prog = "credcom" /\ pc = "clear") =>
          /\ \A i \in 1..Len(ws_a.rows) :
                Cardinality(RowsOfA(i)) = IF i \in RetainedA THEN 1 ELSE 0
          /\ \A n \in 1..Len(items) : items[n].ia # 0 =>
                /\ items[n].cells[1] = NatStr(Val(ColsA(items[n].ia).filial))
                /\ items[n].cells[2] = strftime(Val(ColsA(items[n].ia).date))
                /\ items[n].cells[3] = ShownName(ColsA(items[n].ia))
                /\ items[n].cells[7] \in (IF items[n].ib = 0 THEN {ST_SOMENTE_TRIER}
                                          ELSE {ST_OK, ST_DIVERGENTE})
    /\ (prog = "minerva" /\ pc = "annot") =>
          /\ \A i \in 1..Len(ws_a.rows) :
                Cardinality(RowsOfA(i)) = IF i \in RetainedLines THEN 1 ELSE 0
          /\ \A n \in 1..Len(items) : items[n].ia # 0 =>
                /\ items[n].trier_nome = ws_a.rows[items[n].ia].cliente
                /\ items[n].cpf_digits = Val(MinTrierCols[ws_a.rows[items[n].ia]].cpf)

\* a credcom build that returned a matched row and an only-A row of one
\* partition
C1_Witness ==
    /\ prog = "credcom" /\ pc = "clear"
    /\ \E n, m \in 1..Len(items) : /\ items[n].ia # 0 /\ items[n].ib # 0
                                   /\ items[m].ia # 0 /\ items[m].ib = 0
                                   /\ items[n].cells[1] = items[m].cells[1]
                                   /\ items[n].cells[2] = items[m].cells[2]

\* C2: when the credcom build returns, every retained ledger-B record is in
\* exactly one output row, a matched row or an only-B row of its own
\* partition, also when its (branch, date) key has no ledger-A record
C2_NoReuseOfB ==
    (prog = "credcom" /\ pc = "clear") =>
        /\ \A j \in 1..Len(ws_b.rows) :
              Cardinality(RowsOfB(j)) = IF j \in RetainedB THEN 1 ELSE 0
        /\ \A n \in 1..Len(items) : items[n].ib # 0 =>
              /\ items[n].cells[1] = NatStr(Val(ColsB(items[n].ib).filial))
              /\ items[n].cells[2] = strftime(Val(ColsB(items[n].ib).date))
              /\ items[n].cells[5] = ShownName(ColsB(items[n].ib))
              /\ (items[n].ia = 0 <=> items[n].cells[7] = ST_SOMENTE_CREDCOM)
              /\ (items[n].ia # 0 =>
                    KeyOf(ColsA(items[n].ia)) = KeyOf(ColsB(items[n].ib)))

\* a matched row, a second ledger-A record that wanted the same ledger-B
\* record, and an only-B row under a key without any ledger-A record
C2_Witness ==
    /\ prog = "credcom" /\ pc = "clear"
    /\ \E n \in 1..Len(items) : items[n].ia # 0 /\ items[n].ib # 0
    /\ \E n \in 1..Len(items) :
          /\ items[n].ia = 0
          /\ \A i \in RetainedA : KeyOf(ColsA(i)) # KeyOf(ColsB(items[n].ib))

\* the ledger-B records still free when ledger-A record i is processed: those
\* of its partition that no earlier ledger-A record of the ledger has taken
\* and whose instalment number does not contradict its own
TakenBefore(i) == {items[n].ib : n \in {m \in 1..Len(items) : items[m].ia \in 1..(i - 1)}}

Compatible(i, j) ==
    \/ ColsA(i).parcela.num = None
    \/ ColsB(j).parcela.num = None
    \/ ColsA(i).parcela.num = ColsB(j).parcela.num

Candidates(i) == {j \in RetainedB : /\ KeyOf(ColsB(j)) = KeyOf(ColsA(i))
                                    /\ j \notin TakenBefore(i)
                                    /\ Compatible(i, j)}

Overlap(i, j) == Cardinality(ColsA(i).tokens \cap ColsB(j).tokens)

BestOverlap(i) ==
    IF Candidates(i) = {} THEN 0
    ELSE CHOOSE v \in {Overlap(i, j) : j \in Candidates(i)} :
            \A j \in Candidates(i) : Overlap(i, j) <= v

FirstBest(i) ==
    CHOOSE j \in Candidates(i) :
        /\ Overlap(i, j) = BestOverlap(i)
        /\ \A k \in Candidates(i) : Overlap(i, k) = BestOverlap(i) => j <= k

\* C3: the row of each ledger-A record is matched with the lowest-placed free
\* compatible candidate of maximal token overlap when that overlap is at
\* least 2, and is an only-A row consuming no ledger-B record otherwise
C3_BestCandidate ==
    (prog = "credcom" /\ pc = "clear") =>
        \A n \in 1..Len(items) : items[n].ia # 0 =>
            items[n].ib = IF BestOverlap(items[n].ia) >= 2 THEN FirstBest(items[n].ia) ELSE 0

\* a ledger-A record matched with the first of two free candidates that tie
\* at the maximal overlap
C3_Witness ==
    /\ prog = "credcom" /\ pc = "clear"
    /\ \E n \in 1..Len(items) :
          /\ items[n].ia # 0 /\ items[n].ib # 0
          /\ \E k \in Candidates(items[n].ia) :
                k > items[n].ib /\ Overlap(items[n].ia, k) = BestOverlap(items[n].ia)

\* the two amounts compared for row n of the CPF build: the sum of the TRIER
\* lines of the row's CPF, in ledger order, and the MINERVA total of the CPF
LinesOf(cpf) == SelectSeq([i \in 1..Len(ws_a.rows) |-> i],
                          LAMBDA i : i \in RetainedLines /\ Val(MinTrierCols[ws_a.rows[i]].cpf) = cpf)

TotalsOf(cpf) == SelectSeq([j \in 1..Len(ws_b.rows) |-> j],
                           LAMBDA j : /\ MinervaCols[ws_b.rows[j]].cpf = Some(cpf)
                                      /\ MinervaCols[ws_b.rows[j]].valor # None)

SumA(cpf) == SeqSum([k \in 1..Len(LinesOf(cpf)) |-> Val(MinTrierCols[ws_a.rows[LinesOf(cpf)[k]]].valor)])

SumB(cpf) == KahanSum([k \in 1..Len(TotalsOf(cpf)) |-> Val(MinervaCols[ws_b.rows[TotalsOf(cpf)[k]]].valor)])

\* |x - y| <= 0.05 on doubles
Within005(x, y) ==
    LET d == FSub(x, y)
    IN  FLeq(IF d.s = 1 THEN FNeg(d) ELSE d, FromRatio(5, 100))

\* C4: a matched pair has status OK exactly when the absolute difference of
\* its two amounts is at most 0.05, and VALOR DIVERGENTE otherwise; in the CPF
\* build the two amounts are the sum of the TRIER lines and the MINERVA total
C4_Tolerance ==
    /\ (prog = "credcom" /\ pc = "clear") =>
          \A n \in 1..Len(items) : (items[n].ia # 0 /\ items[n].ib # 0) =>
              LET x == ColsA(items[n].ia).valor
                  y == ColsB(items[n].ib).valor
              IN  items[n].cells[7] =
                      IF x # None /\ y # None /\ Within005(Val(x), Val(y))
                      THEN ST_OK ELSE ST_DIVERGENTE
    /\ (prog = "minerva" /\ pc = "annot") =>
          \A n \in 1..Len(items) :
              (items[n].ia # 0 /\ TotalsOf(items[n].cpf_digits) # <<>>) =>
                  items[n].status_calc =
                      IF Within005(SumA(items[n].cpf_digits), SumB(items[n].cpf_digits))
                      THEN ST_OK ELSE ST_DIVERGENTE

\* a matched pair whose amounts differ by the tolerance itself, with status OK
C4_Witness ==
    /\ prog = "credcom" /\ pc = "clear"
    /\ \E n \in 1..Len(items) :
          /\ items[n].ia # 0 /\ items[n].ib # 0
          /\ ColsA(items[n].ia).valor # None /\ ColsB(items[n].ib).valor # None
          /\ FAbs(FSub(Val(ColsA(items[n].ia).valor), Val(ColsB(items[n].ib).valor)))
                = FromRatio(5, 100)
          /\ items[n].cells[7] = ST_OK

(***************************************************************************)
(* Properties of the runs.                                                 *)
(***************************************************************************)
\* the required columns of the ledger sheets of the script that runs
RequiredOf(p) == IF p = "credcom" THEN {"filial", "cliente", "data emissao", "parcela", "valor"}
                 ELSE {"cliente", "cpf", "valor"}

MissingColumn == ~ (RequiredOf(prog) \subseteq ws_a.header /\ RequiredOf(prog) \subseteq ws_b.header)

\* two rows of the output table with the same branch, document id, names and
\* amounts (the columns A..F)
SameIdentity(r1, r2) == \A c \in 1..6 : r1[c] = r2[c]

NotedRows(table, cpf) ==
    {q \in 2..Len(table) : normalize_cpf(table[q][2]) = cpf /\ Strip(table[q][8]) # <<>>}

FirstNote(table, cpf) ==
    IF NotedRows(table, cpf) = {} THEN <<>>
    ELSE Strip(table[CHOOSE q \in NotedRows(table, cpf) : \A r \in NotedRows(table, cpf) : q <= r][8])

C7_RerunIdempotent ==
    (pc = "done" /\ runs >= 2 /\ ~ edited) => ws_out = prior

\* a second run of the minerva script has carried an annotation to two rows
C7_Witness ==
    /\ pc = "done" /\ runs = 2 /\ ~ edited /\ prog = "minerva"
    /\ \E n, m \in 2..Len(ws_out) : n # m /\ ws_out[n][8] # <<>> /\ ws_out[m][8] # <<>>

\* the branch a row of the table shows in column A
CellFilial(cell) == IF cell = DASH THEN None ELSE Some(StrNat(cell))

\* C8: the key a persisted row is looked up under is the same whatever its
\* status and annotation cells hold, and the key of the row written at a place
\* is the key of the row the run before wrote there
C8_KeyIgnoresStatusAndNote ==
    /\ \A n \in 2..Len(ws_out) : \A st \in EditValues(7), note \in EditValues(8) :
          RowKey([ws_out[n] EXCEPT ![7] = st, ![8] = note]) = RowKey(ws_out[n])
    /\ (pc = "done" /\ runs >= 2) =>
          /\ Len(ws_out) = Len(prior)
          /\ \A n \in 2..Len(ws_out) :
                /\ RowKey(ws_out[n]) = RowKey(prior[n])
                /\ RowKey(ws_out[n]) = Some(items[n - 1].cpf_digits)
                /\ build_row_key(items[n - 1].filial, items[n - 1].cpf_digits)
                      = build_row_key(CellFilial(prior[n][1]), prior[n][2])

\* a second run has found a row whose status or annotation the user had edited
C8_Witness ==
    /\ pc = "done" /\ runs = 2 /\ edited
    /\ \E n \in 2..Len(ws_out) : /\ prior[n][7] # ws_out[n][7] \/ prior[n][8] # ws_out[n][8]
                                 /\ RowKey(prior[n]) # None

\* C9: when a run is over the output sheet holds the header and below it the
\* computed rows, each once at its own place, and nothing else
C9_TableReplaced ==
    pc = "done" =>
        /\ values[1] = (IF prog = "credcom" THEN CRED_HEADER ELSE MIN_HEADER)
        /\ Len(values) = Len(items) + 1
        /\ \A n \in 1..Len(items) :
              values[n + 1] = IF prog = "credcom" THEN items[n].cells
                              ELSE MinCells(items[n], read_existing_annotations(prior))
        /\ Len(ws_out) = Len(values)
        /\ \A n \in 1..Len(values) : \A c \in 1..Width :
              ws_out[n][c] = IF c <= Len(values[n]) THEN values[n][c] ELSE <<>>

\* a minerva run that wrote several chunks over a longer table
C9_Witness ==
    /\ pc = "done" /\ prog = "minerva"
    /\ Len(values) > ChunkSize
    /\ Len(prior) > Len(values)

\* C10: with a required column missing from a ledger sheet the run stops in
\* the build, no row is produced and the output sheet stays as it was
C10_MissingColumnFatal ==
    MissingColumn =>
        /\ pc \in {"start", "failed"}
        /\ items = <<>> /\ values = <<>>
        /\ ws_out = prior

\* a run that failed for a missing column and left an older table in place
C10_Witness ==
    /\ MissingColumn /\ pc = "failed"
    /\ ws_out # <<>>
    /\ ws_a.rows # <<>> /\ ws_b.rows # <<>>

(***************************************************************************)
(* Properties of the records a build excludes, and of the helpers.         *)
(***************************************************************************)
\* the places of the MINERVA rows the minerva build retains
RetainedTotals == {j \in 1..Len(ws_b.rows) :
                      MinervaCols[ws_b.rows[j]].cpf # None /\ MinervaCols[ws_b.rows[j]].valor # None}

\* C11: a ledger record whose amount or document id cannot be parsed does not
\* fail the minerva build, wherever it stands in its ledger: with every
\* required column present and both ledgers holding rows the build returns,
\* every remaining TRIER line is in exactly one row and every remaining
\* MINERVA document id is in a row
C11_UnparsableNotFatal ==
    (prog = "minerva" /\ pc # "start" /\ ~ MissingColumn
        /\ ws_a.rows # <<>> /\ ws_b.rows # <<>>) =>
        /\ pc # "failed"
        /\ pc = "annot" =>
              /\ \A i \in RetainedLines : Cardinality(RowsOfA(i)) = 1
              /\ \A j \in RetainedTotals :
                    \E n \in 1..Len(items) :
                        items[n].cpf_digits = Val(MinervaCols[ws_b.rows[j]].cpf)

ParseFns == {"credcom_parse_brl_money", "minerva_parse_brl_money"}

\* the amount a text of digits, dots and one comma denotes, in cents
CentsOfText(t) == StrNat(SelectSeq(t, IsDigit))

\* C12: an amount text of digits only parses to its integer value when it has
\* at most 3 digits and to its integer value divided by 100 when it has 4 or
\* more; in a text with a decimal comma the dots separate the thousands
C12_CentsHeuristic ==
    (call.fn \in ParseFns /\ call.kind = "text") =>
        /\ (call.arg # <<>> /\ AllDigits(call.arg)) =>
              call.ret = Some(IF Len(call.arg) <= 3 THEN FromRatio(StrNat(call.arg), 1)
                              ELSE FromRatio(StrNat(call.arg), 100))
        /\ call.arg \in CommaTexts => call.ret = Some(FromRatio(CentsOfText(call.arg), 100))

\* C13: an amount of two decimal digits that is not negative, formatted by
\* format_brl and parsed back by parse_brl_money of either script, is the
\* amount again; the text in between is "R$ ", the units with a dot between
\* the thousands, a comma and the two decimal digits
C13_RoundTrip ==
    (call.fn \in ParseFns /\ call.kind = "cents") =>
        /\ call.arg = FormatCents(FALSE, call.input)
        /\ call.ret = Some(FromRatio(call.input, 100))

\* both parsers have returned from a text with two thousands dots and a
\* fraction that is no binary fraction
C13_Witness ==
    /\ call.fn \in ParseFns /\ call.kind = "cents"
    /\ call.input = 123456789
    /\ call.arg = <<"R", "$", " ", "1", ".", "2", "3", "4", ".", "5", "6", "7", ",", "8", "9">>
    /\ call.ret # None

\* a text of the shape ###.###.###-##
HasCpfShape(t) ==
    /\ Len(t) = 14
    /\ t[4] = "." /\ t[8] = "." /\ t[12] = "-"
    /\ \A i \in (1..14) \ {4, 8, 12} : IsDigit(t[i])

\* what normalize_cpf can return: eleven digits
ValidCpf(o) == o # None /\ Len(Val(o)) = 11 /\ AllDigits(Val(o))

RowsOfCpf(cpf) == {n \in 1..Len(items) : items[n].cpf_digits = cpf}

CpfOfLine(i) == Val(MinTrierCols[ws_a.rows[i]].cpf)

\* the status of a document id both ledgers hold
StatusOfTotals(cpf) == IF Within005(SumA(cpf), SumB(cpf)) THEN ST_OK ELSE ST_DIVERGENTE

\* C15: for a document id both ledgers hold, the CPF build returns one row
\* for each retained TRIER line of the id and no other row of the id, and all
\* of them carry the one status computed from the difference between the sum
\* of the TRIER amounts of the id and the sum of its MINERVA amounts
C15_AggregateStatus ==
    (prog = "minerva" /\ pc = "annot") =>
        \A i \in RetainedLines : TotalsOf(CpfOfLine(i)) # <<>> =>
            /\ \E n \in RowsOfCpf(CpfOfLine(i)) : items[n].ia = i
            /\ Cardinality(RowsOfCpf(CpfOfLine(i))) = Len(LinesOf(CpfOfLine(i)))
            /\ \A n \in RowsOfCpf(CpfOfLine(i)) :
                  /\ items[n].ia \in RetainedLines /\ CpfOfLine(items[n].ia) = CpfOfLine(i)
                  /\ items[n].status_calc = StatusOfTotals(CpfOfLine(i))

\* two TRIER lines of one document id whose sum is the MINERVA total while
\* neither line alone is within the tolerance of it: both rows are OK
C15_Witness ==
    /\ prog = "minerva" /\ pc = "annot"
    /\ \E n, m \in 1..Len(items) :
          /\ n # m /\ items[n].cpf_digits = items[m].cpf_digits
          /\ items[n].ia # 0 /\ items[m].ia # 0
          /\ items[n].status_calc = ST_OK /\ items[m].status_calc = ST_OK
          /\ TotalsOf(items[n].cpf_digits) # <<>>
          /\ ~ Within005(Val(items[n].trier_val), SumB(items[n].cpf_digits))
          /\ ~ Within005(Val(items[m].trier_val), SumB(items[n].cpf_digits))

\* the cells main() writes for an item of the CPF build
ShownCells(d) == MinCells(d, <<>>)

\* the placeholders of a row d of the CPF build that shows the cells, and of
\* all rows, b being the MINERVA frame the build retains
MinPlaceholderRow(d, cells, totals, b) ==
    /\ d.ia # 0 \/ totals # <<>>
    /\ (d.ia # 0 /\ totals = <<>>) <=> d.status_calc = ST_SOMENTE_TRIER
    /\ d.ia = 0 <=> d.status_calc = ST_SOMENTE_MINERVA
    /\ d.status_calc = ST_SOMENTE_TRIER => cells[5] = DASH /\ cells[6] = DASH
    /\ d.ia = 0 =>
          /\ cells[3] = DASH /\ cells[4] = DASH
          /\ cells[5] = BCliente(b, d.cpf_digits)
          /\ cells[6] # DASH
    /\ d.ia # 0 =>
          /\ cells[3] = ws_a.rows[d.ia].cliente
          /\ cells[4] # DASH

MinPlaceholders(b) ==
    \A n \in 1..Len(items) :
        MinPlaceholderRow(items[n], ShownCells(items[n]), TotalsOf(items[n].cpf_digits), b)

LexLess(k1, k2, ni) ==
    \E i \in 1..Len(k1) :
        /\ IF i <= ni THEN k1[i] < k2[i] ELSE StrLess(k1[i], k2[i])
        /\ \A j \in 1..(i - 1) : k1[j] = k2[j]

\* (date, branch) of a row of the credcom build, from the cells it shows
DateBranch(r) == <<DateOrd(Val(parse_date_br(r.cells[2]))), StrNat(r.cells[1])>>

\* the composite key of the rows of the CPF build: formatted document id,
\* status, the two names shown
CpfOrderKey(d) == <<format_cpf(Some(d.cpf_digits)), d.status_calc, d.trier_nome, d.minerva_nome>>

CpfRowsOrdered ==
    \A n \in 1..(Len(items) - 1) : ~ LexLess(CpfOrderKey(items[n + 1]), CpfOrderKey(items[n]), 0)

\* C17 as stated: the rows a build returns ascend in the order of (formatted
\* document id, status, ledger-A name, ledger-B name) in the CPF build and of
\* (date, branch, status, ledger-A name, ledger-B name) in the credcom build
C17_OrderedWithStatus ==
    /\ (prog = "minerva" /\ pc = "annot") => CpfRowsOrdered
    /\ (prog = "credcom" /\ pc = "clear") =>
          \A n \in 1..(Len(items) - 1) :
              ~ LexLess(DateBranch(items[n + 1]) \o <<items[n + 1].cells[7], items[n + 1].cells[3],
                                                      items[n + 1].cells[5]>>,
                        DateBranch(items[n]) \o <<items[n].cells[7], items[n].cells[3],
                                                  items[n].cells[5]>>, 2)

\* C17, amended: the rows of the CPF build ascend in the order of (formatted
\* document id, status, ledger-A name, ledger-B name); the rows of the credcom
\* build ascend in the order of (date, branch, ledger-A name, ledger-B name),
\* in which the status has no part
C17_Ordered ==
    /\ (prog = "minerva" /\ pc = "annot") => CpfRowsOrdered
    /\ (prog = "credcom" /\ pc = "clear") =>
          \A n \in 1..(Len(items) - 1) :
              ~ LexLess(DateBranch(items[n + 1]) \o <<items[n + 1].cells[3], items[n + 1].cells[5]>>,
                        DateBranch(items[n]) \o <<items[n].cells[3], items[n].cells[5]>>, 2)

\* a credcom build that returned, for one date and branch, a row whose status
\* is the greater text before a row whose status is the lesser: the names
\* decide
C17_Witness ==
    /\ prog = "credcom" /\ pc = "clear"
    /\ \E n \in 1..(Len(items) - 1) :
          /\ DateBranch(items[n]) = DateBranch(items[n + 1])
          /\ StrLess(items[n + 1].cells[7], items[n].cells[7])
          /\ StrLess(items[n].cells[3], items[n + 1].cells[3])

(***************************************************************************)
(* The instalment constraint of the name-similarity matching.              *)
(***************************************************************************)
\* the row of ledger-A record i and of ledger-B record j in the built table
RowOfA(i) == CHOOSE n \in 1..Len(items) : items[n].ia = i

OnlyA(i) == \E n \in 1..Len(items) : items[n].ia = i /\ items[n].ib = 0

OnlyB(j) == \E n \in 1..Len(items) : items[n].ib = j /\ items[n].ia = 0

SamePartition(i, j) == KeyOf(ColsB(j)) = KeyOf(ColsA(i))

\* C18: no matched row pairs a ledger-A and a ledger-B record that both carry
\* an instalment number when the two numbers differ; and a missing number
\* excludes nothing: two records of one partition that share two name tokens
\* and of which one carries no instalment number are never both left unmatched
C18_InstallmentConstraint ==
    (prog = "credcom" /\ pc = "clear") =>
        /\ \A n \in 1..Len(items) :
              (/\ items[n].ia # 0 /\ items[n].ib # 0
               /\ ColsA(items[n].ia).parcela.num # None
               /\ ColsB(items[n].ib).parcela.num # None)
              => Val(ColsA(items[n].ia).parcela.num) = Val(ColsB(items[n].ib).parcela.num)
        /\ \A i \in RetainedA : \A j \in RetainedB :
              (/\ SamePartition(i, j) /\ Overlap(i, j) >= 2
               /\ (ColsA(i).parcela.num = None \/ ColsB(j).parcela.num = None))
              => ~(OnlyA(i) /\ OnlyB(j))

\* a ledger-A record left unmatched although a free record of its partition
\* shares two tokens with it, their instalment numbers differing, while
\* another matched row pairs a record without number with one that carries one
C18_Witness ==
    /\ prog = "credcom" /\ pc = "clear"
    /\ \E i \in RetainedA : \E j \in RetainedB :
          /\ SamePartition(i, j) /\ Overlap(i, j) >= 2
          /\ ~Compatible(i, j) /\ j \notin TakenBefore(i)
          /\ OnlyA(i)
    /\ \E n \in 1..Len(items) :
          /\ items[n].ia # 0 /\ items[n].ib # 0
          /\ (ColsA(items[n].ia).parcela.num = None) # (ColsB(items[n].ib).parcela.num = None)

(***************************************************************************)
(* The order in which the ledger-A records of a partition are served.      *)
(***************************************************************************)
\* the ledger-B record that ledger-A record i selects when the records of
\* taken are used: the lowest-placed compatible record of its partition with
\* the greatest token overlap, 0 when that overlap is below 2
FreeFor(i, taken) == {j \in RetainedB \ taken : SamePartition(i, j) /\ Compatible(i, j)}

BestAmong(i, taken) ==
    IF \A j \in FreeFor(i, taken) : Overlap(i, j) < 2 THEN 0
    ELSE CHOOSE j \in FreeFor(i, taken) :
            \A k \in FreeFor(i, taken) :
                Overlap(i, k) < Overlap(i, j) \/ (Overlap(i, k) = Overlap(i, j) /\ j <= k)

PartnerOf(i) == items[RowOfA(i)].ib

ItemKey(n) ==
    IF items[n].ia # 0 THEN KeyOf(ColsA(items[n].ia)) ELSE KeyOf(ColsB(items[n].ib))

PartitionKeys == {KeyOf(ColsA(i)) : i \in RetainedA} \cup {KeyOf(ColsB(j)) : j \in RetainedB}

RowsOfPartition(k) == {items[n] : n \in {m \in 1..Len(items) : ItemKey(m) = k}}

\* the records of partition k alone, at their places in the ledgers
PartA(k) == Group(CredDropNa(CredNorm(DataFrame(ws_a), TrierCols)), k)

PartB(k) == Group(CredDropNa(CredNorm(DataFrame(ws_b), CredcomCols)), k)

\* the rows of partition k computed from its own records, with no record
\* used at the start
RowsAlone(k, tg, cg) ==
    LET rows == WithLeftover(k, cg, MatchTrier(k, tg, cg, 1, {}, <<>>))
    IN  {rows[n] : n \in 1..Len(rows)}

\* C20: every matched row pairs two records of one (filial, date) key, and
\* the rows of each partition in the built table are those computed from
\* the records of that partition alone, starting with no record used;
\* nothing of another partition, nor the place of the partition among the
\* others, enters them
C20_PartitionsIndependent ==
    (prog = "credcom" /\ pc = "clear") =>
        /\ \A n \in 1..Len(items) :
              (items[n].ia # 0 /\ items[n].ib # 0) => SamePartition(items[n].ia, items[n].ib)
        /\ \A k \in PartitionKeys : RowsOfPartition(k) = RowsAlone(k, PartA(k), PartB(k))

\* a table of two partitions: a ledger-A record of one and a ledger-B record
\* of the other share two tokens, their instalments do not contradict each
\* other, and both are left unmatched
C20_Witness ==
    /\ prog = "credcom" /\ pc = "clear"
    /\ \E i \in RetainedA : \E j \in RetainedB :
          /\ ~SamePartition(i, j)
          /\ Overlap(i, j) >= 2 /\ Compatible(i, j)
          /\ OnlyA(i) /\ OnlyB(j)

(***************************************************************************)
(* Records that lack the branch or the date.                               *)
(***************************************************************************)
\* a ledger row whose branch cell is a number and whose date cell is a date
HasBranchAndDate(r) ==
    /\ Strip(r.filial) # <<>> /\ AllDigits(Strip(r.filial))
    /\ parse_date_br(r.data) # None

\* the ledger without the rows that lack the branch or the date, as a frame
\* with the columns of the sheet
FrameOfComplete(ws) == [cols |-> ws.header, rows |-> SelectSeq(ws.rows, HasBranchAndDate)]

CellsOf(rows) == [n \in 1..Len(rows) |-> rows[n].cells]

\* C21: a ledger record whose branch is not numeric or whose date does not
\* parse is held by no row of the built table, and the table is, cell for
\* cell, the one built from the ledgers without such records
C21_IncompleteRecordsExcluded ==
    (prog = "credcom" /\ pc = "clear") =>
        /\ \A n \in 1..Len(items) :
              /\ items[n].ia # 0 => HasBranchAndDate(ws_a.rows[items[n].ia])
              /\ items[n].ib # 0 => HasBranchAndDate(ws_b.rows[items[n].ib])
        /\ CellsOf(items)
             = CellsOf(build_conferencia_rows(FrameOfComplete(ws_a), FrameOfComplete(ws_b)).rows)

\* a built table with rows, from ledgers of which one holds a record without
\* date and the other a record without branch, each sharing two tokens with
\* a record the table holds
C21_Witness ==
    /\ prog = "credcom" /\ pc = "clear" /\ items # <<>>
    /\ \E i \in 1..Len(ws_a.rows) : \E j \in 1..Len(ws_b.rows) :
          /\ parse_date_br(ws_a.rows[i].data) = None
          /\ ~ AllDigits(Strip(ws_b.rows[j].filial))
          /\ \E n \in 1..Len(items) :
                \/ /\ items[n].ia # 0
                   /\ Cardinality(ColsA(items[n].ia).tokens \cap ColsB(j).tokens) >= 2
                \/ /\ items[n].ib # 0
                   /\ Cardinality(ColsA(i).tokens \cap ColsB(items[n].ib).tokens) >= 2

(***************************************************************************)
(* Records whose amount does not parse.                                    *)
(***************************************************************************)
MatchedStatus == {ST_OK, ST_DIVERGENTE}

\* the rows of the credcom table that pair two records, all with a parsed
\* amount on both sides
CredMatchedHaveAmounts ==
    \A n \in 1..Len(items) :
        (items[n].ia # 0 /\ items[n].ib # 0) =>
            /\ ColsA(items[n].ia).valor # None
            /\ ColsB(items[n].ib).valor # None

\* the rows of the CPF table with a matched status, all from a TRIER line
\* with a parsed amount and a MINERVA total made of parsed amounts
CpfMatchedHaveAmounts ==
    \A n \in 1..Len(items) :
        items[n].status_calc \in MatchedStatus =>
            /\ items[n].ia \in RetainedLines
            /\ TotalsOf(items[n].cpf_digits) # <<>>
            /\ items[n].status_calc = StatusOfTotals(items[n].cpf_digits)

\* C22: in both builds no matched row (status OK or VALOR DIVERGENTE) is made
\* from a ledger record whose amount text parsed to none
C22_UnparsableAmountUnmatched ==
    /\ (prog = "credcom" /\ pc = "clear") => CredMatchedHaveAmounts
    /\ (prog = "minerva" /\ pc = "annot") => CpfMatchedHaveAmounts

(***************************************************************************)
(* Where the annotations of the written table come from.                   *)
(***************************************************************************)
\* the rows of a table persisted under the key of row r
SameKeyRows(table, r) == {q \in 2..Len(table) : RowKey(table[q]) = RowKey(r) /\ RowKey(r) # None}

\* C23: every non-empty annotation cell a run writes equals, character for
\* character and with the blanks around it, the annotation cell of a row of
\* the persisted table with the same key, and a row whose key had no
\* annotation in the persisted table is written with an empty annotation
C23_AnnotationVerbatim ==
    (prog = "minerva" /\ pc = "done") =>
        \A n \in 2..Len(ws_out) :
            /\ ws_out[n][8] # <<>> =>
                  \E q \in SameKeyRows(prior, ws_out[n]) : prior[q][8] = ws_out[n][8]
            /\ (\A q \in SameKeyRows(prior, ws_out[n]) : prior[q][8] = <<>>) => ws_out[n][8] = <<>>

(***************************************************************************)
(* A persisted table with short, long or unusable rows.                    *)
(***************************************************************************)
\* cell c of a row, empty when the row is shorter
CellAt(row, c) == IF c <= Len(row) THEN row[c] ELSE <<>>

\* the CPFs of the rows of a table that hold a CPF and a non-blank annotation
NotedCpfs(table) ==
    {Val(normalize_cpf(CellAt(table[n], 2))) :
        n \in {m \in 2..Len(table) : /\ normalize_cpf(CellAt(table[m], 2)) # None
                                      /\ Strip(CellAt(table[m], 8)) # <<>>}}

\* C24: read_existing_annotations raises for no table, whatever the lengths
\* of its rows; it reads a missing cell as an empty one, returns an entry for
\* exactly the CPFs of the rows that hold a CPF of 11 digits and a non-blank
\* annotation, and returns the empty map for an empty sheet
C24_MalformedTableTolerated ==
    call.fn = "read_existing_annotations" =>
        /\ ~ call.ret.raised
        /\ {call.ret.map[k][1] : k \in 1..Len(call.ret.map)} = NotedCpfs(call.arg)
        /\ \A k \in 1..Len(call.ret.map) : Len(call.ret.map[k][1]) = 11
        /\ call.arg = <<>> => call.ret.map = <<>>

\* a table read with a row of fewer than 8 cells that holds a CPF, and a row
\* of more than 8 cells whose annotation is returned
C24_Witness ==
    /\ call.fn = "read_existing_annotations"
    /\ \E n \in 2..Len(call.arg) :
          Len(call.arg[n]) \in 2..7 /\ normalize_cpf(call.arg[n][2]) # None
    /\ \E n \in 2..Len(call.arg) : Len(call.arg[n]) > 8
    /\ call.ret.map # <<>>

(***************************************************************************)
(* One-to-one pairing by closest amount inside a document id.              *)
(***************************************************************************)
AmountA(i) == Val(MinTrierCols[ws_a.rows[i]].valor)

AmountB(j) == Val(MinervaCols[ws_b.rows[j]].valor)

AbsDiff(i, j) == FAbs(FSub(AmountA(i), AmountB(j)))

\* the ledger-B record of the document id of line i that is closest in
\* amount among those not in used, the first one of several; 0 for none
ClosestFree(i, used) ==
    LET free == {TotalsOf(CpfOfLine(i))[k] : k \in 1..Len(TotalsOf(CpfOfLine(i)))} \ used
    IN  IF free = {} THEN 0
        ELSE CHOOSE j \in free :
                \A k \in free : FLess(AbsDiff(i, j), AbsDiff(i, k))
                                   \/ (AbsDiff(i, j) = AbsDiff(i, k) /\ j <= k)

\* the ledger-B records consumed by the first n lines of a document id
RECURSIVE ClosestUsed(_, _)
ClosestUsed(cpf, n) ==
    IF n = 0 THEN {}
    ELSE ClosestUsed(cpf, n - 1) \cup ({ClosestFree(LinesOf(cpf)[n], ClosestUsed(cpf, n - 1))} \ {0})

PlaceOfLine(i) == CHOOSE n \in 1..Len(LinesOf(CpfOfLine(i))) : LinesOf(CpfOfLine(i))[n] = i

ClosestPartner(i) == ClosestFree(i, ClosestUsed(CpfOfLine(i), PlaceOfLine(i) - 1))

\* C25: in the build keyed by document id each ledger-A line is paired with
\* the unused ledger-B record of its document id that is closest in amount
\* (the first of several), whatever the difference, and a consumed record
\* serves no other line: the row of a line carries the status of its own
\* amount against that of its partner, and is an only-A row when the
\* records of its document id are used up
C25_ValueClosest ==
    (prog = "minerva" /\ pc = "annot") =>
        \A n \in 1..Len(items) : items[n].ia # 0 =>
            items[n].status_calc =
                IF ClosestPartner(items[n].ia) = 0 THEN ST_SOMENTE_TRIER
                ELSE IF Within005(AmountA(items[n].ia), AmountB(ClosestPartner(items[n].ia)))
                     THEN ST_OK ELSE ST_DIVERGENTE

(***************************************************************************)
(* The row of a document id that shows the ledger-B side.                  *)
(***************************************************************************)
\* the rows of a document id that show a ledger-B name or total
ShowsB(n) == items[n].minerva_nome # DASH \/ items[n].minerva_val # None

FirstRowOfCpf(cpf) == CHOOSE n \in RowsOfCpf(cpf) : \A m \in RowsOfCpf(cpf) : n <= m

\* C26: for a document id both ledgers hold, exactly one row of the returned
\* table shows the ledger-B name and total, it is the first row of the id
\* in the table, and every other row of the id shows the dash in both
\* ledger-B fields
C26_TotalShownOnFirstRow ==
    (prog = "minerva" /\ pc = "annot") =>
        \A i \in RetainedLines : TotalsOf(CpfOfLine(i)) # <<>> =>
            /\ Cardinality({n \in RowsOfCpf(CpfOfLine(i)) : ShowsB(n)}) = 1
            /\ ShowsB(FirstRowOfCpf(CpfOfLine(i)))
            /\ items[FirstRowOfCpf(CpfOfLine(i))].minerva_val = Some(SumB(CpfOfLine(i)))
            /\ \A n \in RowsOfCpf(CpfOfLine(i)) \ {FirstRowOfCpf(CpfOfLine(i))} :
                  items[n].minerva_nome = DASH /\ items[n].minerva_val = None

(***************************************************************************)
(* Several annotations of one document id.                                 *)
(***************************************************************************)
\* the CPFs the persisted table holds an annotation for
NotedKeys(table) == {c \in {normalize_cpf(table[q][2]) : q \in 2..Len(table)} :
                        c # None /\ NotedRows(table, c) # {}}

\* C27: the map read from the persisted table holds, for each document id,
\* the first non-blank annotation of the table, stripped, and nothing of the
\* later ones; so in the table a run leaves all rows of one document id
\* carry that one annotation
C27_FirstAnnotationWins ==
    (prog = "minerva" /\ pc = "done") =>
        /\ {Some(annotations[k][1]) : k \in 1..Len(annotations)} = NotedKeys(prior)
        /\ \A k \in 1..Len(annotations) :
              /\ annotations[k][2] = FirstNote(prior, Some(annotations[k][1]))
              /\ \A l \in 1..Len(annotations) : annotations[l][1] = annotations[k][1] => l = k
        /\ \A n \in 2..Len(ws_out) : \A m \in 2..Len(ws_out) :
              RowKey(ws_out[n]) = RowKey(ws_out[m]) => ws_out[n][8] = ws_out[m][8]

\* the persisted table held two different annotations for one document id;
\* the run has written the first of them on two rows of the id and the
\* second one is nowhere in the table
C27_Witness ==
    /\ prog = "minerva" /\ pc = "done"
    /\ \E q \in 2..Len(prior) : \E r \in 2..Len(prior) :
          /\ q < r /\ RowKey(prior[q]) = RowKey(prior[r]) /\ RowKey(prior[q]) # None
          /\ Strip(prior[q][8]) # <<>> /\ Strip(prior[r][8]) # <<>>
          /\ Strip(prior[q][8]) # Strip(prior[r][8])
          /\ \E n \in 2..Len(ws_out) : \E m \in 2..Len(ws_out) :
                /\ n # m
                /\ RowKey(ws_out[n]) = RowKey(prior[q]) /\ RowKey(ws_out[m]) = RowKey(prior[q])
                /\ ws_out[n][8] = Strip(prior[q][8]) /\ ws_out[m][8] = Strip(prior[q][8])
          /\ \A n \in 2..Len(ws_out) : ws_out[n][8] # Strip(prior[r][8])

(***************************************************************************)
(* data_comb.py: one row for a key.                                        *)
(***************************************************************************)
Combined == call.fn = "combine_and_conference_from_gsheets"

CombCred == CleanCred(call.input.cred, call.input.today)

CombTrier == CleanTrier(call.input.trier, call.input.today)

\* the key of a cleaned record and of a row of the conference
KeyOfRecord(r) == <<r.Filial, r.Cliente, r.Data_Emissao, r.Parcela_Num>>

KeyOfRow(r) == <<r.Filial, r.Cliente, Val(parse_date_br(r.Data)), r.Parcela>>

KeysOf(df) == {KeyOfRecord(df[n]) : n \in 1..Len(df)}

\* the first record of a ledger with the key k
FirstOfKey(df, k) ==
    df[CHOOSE n \in 1..Len(df) : KeyOfRecord(df[n]) = k /\ \A j \in 1..(n-1) : KeyOfRecord(df[j]) # k]

\* |x - y| <= 0.02 on doubles
Within002(x, y) ==
    LET d == FSub(x, y)
    IN  FLeq(IF d.s = 1 THEN FNeg(d) ELSE d, FromRatio(2, 100))

StatusOfKey(k, cred, trier) ==
    IF \A n \in 1..Len(trier) : KeyOfRecord(trier[n]) # k THEN ST_FALTA_TRIER
    ELSE IF \A n \in 1..Len(cred) : KeyOfRecord(cred[n]) # k THEN ST_FALTA_CRED
    ELSE IF Within002(FirstOfKey(cred, k).Valor_Num, FirstOfKey(trier, k).Valor_Num) THEN ST_MATCH
    ELSE ST_DISCREPANCIA

\* the rows of the conference are the rows of the keys, one for a key
RowsOfKeys(ret, keys, cred, trier, keys_cred, keys_trier) ==
    /\ \A n \in 1..Len(ret) : KeyOfRow(ret[n]) \in keys
    /\ \A k \in keys :
          /\ Cardinality({n \in 1..Len(ret) : KeyOfRow(ret[n]) = k}) = 1
          /\ \A n \in 1..Len(ret) : KeyOfRow(ret[n]) = k =>
                /\ ret[n].Status = StatusOfKey(k, cred, trier)
                /\ ret[n].Valor_CredCommerce =
                      IF k \in keys_cred
                      THEN FormatValor(FirstOfKey(cred, k).Valor_Num) ELSE NAO_REGISTRADO
                /\ ret[n].Valor_Trier =
                      IF k \in keys_trier
                      THEN FormatValor(FirstOfKey(trier, k).Valor_Num) ELSE NAO_REGISTRADO

\* C28: the conference has exactly one row for every key (branch, client
\* name, date, installment number) of the two ledgers together and no other
\* row; the row shows the amount of the first record of the key in each
\* ledger; its status is FALTA NO TRIER when only CredCommerce has the key,
\* FALTA NO CREDCOMMERCE when only Trier has it, and otherwise MATCH exactly
\* when the two first amounts differ by at most 0.02, else DISCREPANCIA
C28_OneRowPerKey ==
    Combined =>
        RowsOfKeys(call.ret, KeysOf(CombCred) \cup KeysOf(CombTrier), CombCred, CombTrier,
                   KeysOf(CombCred), KeysOf(CombTrier))

\* a key with one CredCommerce record and two Trier records: the first
\* amounts are within 0.02 and the row is a MATCH, though the amount of the
\* last Trier record is further away
C28_Witness ==
    /\ Combined
    /\ Len(call.ret) = 1
    /\ Len(CombCred) = 1 /\ Len(CombTrier) = 2
    /\ KeyOfRecord(CombTrier[1]) = KeyOfRecord(CombCred[1])
    /\ KeyOfRecord(CombTrier[2]) = KeyOfRecord(CombCred[1])
    /\ ~ Within002(CombCred[1].Valor_Num, CombTrier[2].Valor_Num)
    /\ call.ret[1].Status = ST_MATCH

(***************************************************************************)
(* retry_api_call.                                                         *)
(***************************************************************************)
RetryOver == retry.pc \in {"returned", "raised"}

\* the calls of func but the last
EarlierCalls == SubSeq(retry.calls, 1, Len(retry.calls) - 1)

Is500(o) == o.kind = "HttpError" /\ o.status = 500

RetrySafe ==
    /\ Len(retry.calls) <= retry.retries
    /\ \A n \in 1..Len(EarlierCalls) : Is500(EarlierCalls[n])
    /\ retry.pc = "returned" =>
          /\ retry.calls # <<>>
          /\ retry.calls[Len(retry.calls)].kind = "return"
          /\ retry.result = retry.calls[Len(retry.calls)]
    /\ (retry.pc = "raised" /\ retry.result # MaxRetriesReached) =>
          /\ retry.calls # <<>>
          /\ retry.calls[Len(retry.calls)].kind # "return"
          /\ ~ Is500(retry.calls[Len(retry.calls)])
          /\ retry.result = retry.calls[Len(retry.calls)]
    /\ (retry.pc = "raised" /\ retry.result = MaxRetriesReached) =>
          /\ Len(retry.calls) = retry.retries
          /\ \A n \in 1..Len(retry.calls) : Is500(retry.calls[n])
    /\ (retry.pc \in {"for", "sleep"}) => \A n \in 1..Len(retry.calls) : Is500(retry.calls[n])

\* C29: retry_api_call calls func at most `retries` times; every call but the
\* last raised HTTP 500; it returns the value of the first call that returns,
\* raises at once the first error that is not HTTP 500, raises 'Max retries
\* reached.' after `retries` calls that all raised HTTP 500, and it ends
C29_RetryBounded == [] RetrySafe /\ <> RetryOver

\* two HTTP 500 and then a value, with retries = 3
C29_Witness ==
    /\ retry.retries = 3 /\ retry.pc = "returned"
    /\ Len(retry.calls) = 3
    /\ Is500(retry.calls[1]) /\ Is500(retry.calls[2])
    /\ retry.result.value = "r1"

(***************************************************************************)
(* append_df_to_sheet.                                                     *)
(***************************************************************************)
\* the frames handed over that are not empty, but the one in hand
Finished ==
    SelectSeq(IF cdl.pc = "batches" THEN SubSeq(cdl.appended, 1, Len(cdl.appended) - 1)
              ELSE cdl.appended,
              LAMBDA df : Len(df.columns) # 0 /\ Len(df.rows) # 0)

RECURSIVE RowsOfFrames(_)
RowsOfFrames(frames) ==
    IF frames = <<>> THEN <<>> ELSE Head(frames).rows \o RowsOfFrames(Tail(frames))

\* the rows of the frame in hand that the loop has written
WrittenOfHand ==
    IF cdl.pc = "batches" THEN SubSeq(cdl.df.rows, 1, Min(cdl.i, Len(cdl.df.rows))) ELSE <<>>

FirstColumns == IF Finished # <<>> THEN Finished[1].columns ELSE cdl.df.columns

PadCells(row) == [c \in 1..Width |-> IF c <= Len(row) THEN row[c] ELSE <<>>]

ExpectedSheet(rows) ==
    IF Finished = <<>> /\ cdl.pc # "batches" THEN <<>>
    ELSE [n \in 1..(Len(rows) + 1) |-> PadCells(IF n = 1 THEN FirstColumns ELSE rows[n - 1])]

\* C30: from an empty worksheet on, the sheet is at every moment the columns
\* of the first frame that was not empty, then the rows of every such frame in
\* the order of the calls, each row once and in the order of the frame, then
\* the rows of the frame in hand written so far: an empty frame changes
\* nothing, no second header is written and no row is written over
C30_AppendOnly == cdl.pc # "none" => cdl.ws = ExpectedSheet(RowsOfFrames(Finished) \o WrittenOfHand)

\* two frames appended, the second in two batches: one header, then the row
\* of the first frame, then the three rows of the second
C30_Witness ==
    /\ cdl.pc = "idle" /\ Len(cdl.appended) = 2
    /\ Len(cdl.appended[1].rows) = 1 /\ Len(cdl.appended[2].rows) = 3
    /\ cdl.appended[2].rows[1] # cdl.appended[2].rows[3]
    /\ Len(cdl.ws) = 5
    /\ cdl.ws[1] = PadCells(cdl.appended[1].columns)
    /\ cdl.ws[5] = PadCells(cdl.appended[2].rows[3])

====
